---------------------------- MODULE Spec2Model ----------------------------
(***************************************************************************)
(* Model of the MDR interaction core: the zustand game store               *)
(* (src/src/stores/gameStore.ts), the WorldSystem spatial index and        *)
(* viewport (src/src/systems/WorldSystem.ts) and the two gesture           *)
(* responders (src/src/components/MDRInterface.tsx and                     *)
(* src/src/components/MDRTerminalGrid.tsx).                                *)
(*                                                                         *)
(* Numbers.  World coordinates are whole pixels.  The gesture handlers     *)
(* work on floating point values; they are modelled in fixed point with    *)
(* two decimals: a cursor coordinate or a momentum velocity v stands for   *)
(* v / 100 pixels (Px(20) is the source's 20).  Products are rounded       *)
(* toward zero.  Gesture velocities (gestureState.vx, vy) are in tenths,   *)
(* gesture displacements (dx, dy) in whole pixels.                         *)
(***************************************************************************)
EXTENDS Integers, Sequences, FiniteSets, TLC

VARIABLES
    numbers,               \* gameStore world.numbers: sequence of entities
    spatialGrid,           \* WorldSystem.spatialGrid: cell key -> sequence of entities
    viewport,              \* gameStore world.viewport
    scale,                 \* gameStore world.scale, in tenths (10 is 1.0)
    lasso,                 \* gameStore lasso
    cursor,                \* gameStore cursor
    touch,                 \* which responder holds the touch: "none", "iface", "grid"
    holdTimers,            \* MDRInterface: pending setTimeout callbacks, ms left of each
    heldMs,                \* ms the last touch was held (capped); 0 again after a
                           \* release of the MDRTerminalGrid responder
    downs,                 \* number of touch-downs so far (capped)
    cursorVelocity,        \* MDRTerminalGrid local state cursorVelocity
    isLassoMode,           \* MDRTerminalGrid local state isLassoMode
    lassoPoints,           \* MDRTerminalGrid local state lassoPoints
    momentumAnimationRef,  \* MDRTerminalGrid momentumAnimationRef.current (0 is null)
    intervals,             \* live setInterval timers: id -> cursor.position captured
    gesture,               \* the running gesture: moves in its last direction, and
                           \* how long the touch was held before its first move
                           \* (since), the velocity of its last event (vel)
    ticks,                 \* momentum ticks since the last release (capped)
    modeSwitches,          \* calls of FeedbackSystem.triggerModeSwitch so far
    feedback,              \* gameStore ui.feedback
    feedbackSystem,        \* the FeedbackSystem singleton: hapticEnabled, audioEnabled,
                           \* lastHapticTime, visualEffects, activeAudioTimeouts
    hapticDriver,          \* the calls of HapticFeedback.trigger so far
    hideTimers,            \* pending setTimeout(hideFeedback) callbacks, ms left of each
    now,                   \* Date.now(), ms
    batch,                 \* PerformanceUtils.batchUpdates: updateQueue, isScheduled, the
                           \* frame callbacks requestAnimationFrame holds, and the record
                           \* of the callbacks queued and run
    session,               \* gameStore session (capturedNumbers)
    globalTime,            \* MDRTerminalGrid local state globalTime, in ms (capped)
    frameTime,             \* ms elapsed since the previous frame or timer callback
    config,                \* tuningStore config (cursor and grid sections)
    lastOp                 \* name of the last operation taken

vars == << numbers, spatialGrid, viewport, scale, lasso, cursor, touch, holdTimers,
           heldMs, downs, cursorVelocity, isLassoMode, lassoPoints,
           momentumAnimationRef, intervals, gesture, ticks, modeSwitches, feedback,
           feedbackSystem, hapticDriver, hideTimers, now, batch, session,
           globalTime, frameTime, config, lastOp >>

worldVars   == << numbers, spatialGrid, viewport, scale >>
gestureVars == << touch, holdTimers, heldMs, downs, cursorVelocity, isLassoMode,
                  lassoPoints, momentumAnimationRef, intervals, gesture, ticks,
                  modeSwitches >>
frameVars   == << globalTime, frameTime >>
systemVars  == << feedbackSystem, hapticDriver, hideTimers, now >>
auxVars     == << feedback, systemVars, batch, session, globalTime, frameTime, config >>

-----------------------------------------------------------------------------
(* Arithmetic helpers *)

Max(a, b) == IF a >= b THEN a ELSE b
Min(a, b) == IF a <= b THEN a ELSE b
Abs(a)    == IF a >= 0 THEN a ELSE -a

\* Math.floor(a / b) for b > 0
FloorDiv(a, b) == a \div b

\* Math.ceil(a / b) for a >= 0, b > 0
CeilDiv(a, b) == (a + b - 1) \div b

\* a * n / d rounded toward zero (fixed-point product)
MulDiv(a, n, d) == IF a >= 0 THEN (a * n) \div d ELSE -(((-a) * n) \div d)

Point(px, py) == [x |-> px, y |-> py]

\* Fixed point: n pixels
Px(n) == n * 100

-----------------------------------------------------------------------------
(* JavaScript numbers.  Where the exact result of an operation matters, a     *)
(* number is the IEEE-754 double it is at run time: (-1)^neg * m * 2^e with m  *)
(* a natural number of at most 53 bits, odd or 0.  m is a sequence of limbs   *)
(* in base 2^12, lowest first, without leading zero limbs (empty for 0).      *)
(* Overflow, subnormals, NaN and the sign of zero are outside the values the  *)
(* transforms meet and are not modelled.                                      *)

\* Bits of the mantissa of a double
MantissaBits == 53

\* Bits of a limb, and the base
LimbBits == 12
LimbBase == 2 ^ LimbBits

LimbAt(a, i) == IF i >= 1 /\ i <= Len(a) THEN a[i] ELSE 0

\* Drop the leading (high) zero limbs
RECURSIVE LTrim(_)
LTrim(a) ==
    IF a = << >> THEN a
    ELSE IF a[Len(a)] # 0 THEN a
    ELSE LTrim(SubSeq(a, 1, Len(a) - 1))

\* Carry c into limb i and on: every limb is brought below the base
RECURSIVE LCarry(_, _, _)
LCarry(a, i, c) ==
    IF i > Len(a)
    THEN IF c = 0 THEN << >> ELSE << c % LimbBase >> \o LCarry(a, i, c \div LimbBase)
    ELSE << (a[i] + c) % LimbBase >> \o LCarry(a, i + 1, (a[i] + c) \div LimbBase)

LNorm(a) == LTrim(LCarry(a, 1, 0))

\* The limbs of a natural number
NatLimbs(n) == LNorm(<< n >>)

\* a + b
LAdd(a, b) ==
    LNorm([i \in 1..Max(Len(a), Len(b)) |-> LimbAt(a, i) + LimbAt(b, i)])

\* a - b - c from limb i on, for a >= b
RECURSIVE LSubFrom(_, _, _, _)
LSubFrom(a, b, i, c) ==
    IF i > Len(a)
    THEN << >>
    ELSE << (a[i] - LimbAt(b, i) - c + LimbBase) % LimbBase >>
             \o LSubFrom(a, b, i + 1, IF a[i] - LimbAt(b, i) - c < 0 THEN 1 ELSE 0)

LSub(a, b) == LTrim(LSubFrom(a, b, 1, 0))

\* a < b, comparing from limb i down (equal lengths)
RECURSIVE LLessFrom(_, _, _)
LLessFrom(a, b, i) ==
    IF i = 0 THEN FALSE
    ELSE IF a[i] # b[i] THEN a[i] < b[i]
    ELSE LLessFrom(a, b, i - 1)

LLess(a, b) ==
    IF Len(a) # Len(b) THEN Len(a) < Len(b) ELSE LLessFrom(a, b, Len(a))

\* Column k of the product: the sum of a[i] * b[k - i + 1] from i on
RECURSIVE LColumn(_, _, _, _)
LColumn(a, b, k, i) ==
    IF i > Len(a) THEN 0
    ELSE a[i] * LimbAt(b, k - i + 1) + LColumn(a, b, k, i + 1)

\* a * b, for a and b of at most five limbs
LMul(a, b) == LNorm([k \in 1..(Len(a) + Len(b)) |-> LColumn(a, b, k, 1)])

\* Number of bits of a, and bit i of a (1 is the lowest)
LBitLen(a) ==
    IF a = << >> THEN 0
    ELSE LimbBits * (Len(a) - 1)
           + (CHOOSE n \in 1..LimbBits : 2 ^ (n - 1) <= a[Len(a)] /\ a[Len(a)] < 2 ^ n)

LBit(a, i) == (LimbAt(a, (i - 1) \div LimbBits + 1) \div 2 ^ ((i - 1) % LimbBits)) % 2

\* a * 2^k
LShl(a, k) ==
    LNorm([i \in 1..(Len(a) + k \div LimbBits) |->
              IF i <= k \div LimbBits THEN 0
              ELSE a[i - k \div LimbBits] * 2 ^ (k % LimbBits)])

\* floor(a / 2^k)
LShr(a, k) ==
    LTrim([i \in 1..(Len(a) - k \div LimbBits) |->
              LimbAt(a, i + k \div LimbBits) \div 2 ^ (k % LimbBits)
                + (LimbAt(a, i + k \div LimbBits + 1) % 2 ^ (k % LimbBits))
                      * 2 ^ (LimbBits - (k % LimbBits))])

\* 2 * a + bit
LTwicePlus(a, bit) ==
    LNorm([i \in 1..(Len(a) + 1) |-> 2 * LimbAt(a, i) + (IF i = 1 THEN bit ELSE 0)])

\* Long division works in digits of DigitBits bits, DigitsPerLimb to a limb
DigitBits     == 4
DigitsPerLimb == LimbBits \div DigitBits

\* Digit i of a (1 is the lowest)
LDigit(a, i) ==
    (LimbAt(a, (i - 1) \div DigitsPerLimb + 1)
        \div 2 ^ (DigitBits * ((i - 1) % DigitsPerLimb))) % 2 ^ DigitBits

\* The limbs of a number given by its digits, lowest first: limb j from its
\* digit i on
RECURSIVE LimbOfDigits(_, _, _)
LimbOfDigits(digits, j, i) ==
    IF i > DigitsPerLimb \/ DigitsPerLimb * (j - 1) + i > Len(digits) THEN 0
    ELSE digits[DigitsPerLimb * (j - 1) + i] * 2 ^ (DigitBits * (i - 1))
           + LimbOfDigits(digits, j, i + 1)

DigitsLimbs(digits) ==
    LTrim([j \in 1..((Len(digits) + DigitsPerLimb - 1) \div DigitsPerLimb) |->
              LimbOfDigits(digits, j, 1)])

\* a * d for a digit d
LScale(a, d) == LNorm([i \in 1..Len(a) |-> a[i] * d])

\* a * 2^DigitBits + d
LBringDown(a, d) ==
    LNorm([i \in 1..(Len(a) + 1) |->
              LimbAt(a, i) * 2 ^ DigitBits + (IF i = 1 THEN d ELSE 0)])

\* The quotient digit: how many times b fits into r (fewer than 2^DigitBits)
LFits(r, b) ==
    CHOOSE d \in 0..(2 ^ DigitBits - 1) :
        ~LLess(r, LScale(b, d)) /\ LLess(r, LScale(b, d + 1))

\* One step of long division: the quotient digit for the remainder r with the
\* next digit brought down, and the remainder it leaves
LDivStep(r, b) == [q |-> LFits(r, b), r |-> LSub(r, LScale(b, LFits(r, b)))]

\* Long division by b of a number whose digits above i gave the quotient
\* digits q (lowest first) and the remainder r: digit i of a is brought down
\* and b is subtracted as often as it fits.  (The step is evaluated before
\* the next one starts.)
RECURSIVE LDivFrom(_, _, _, _, _)
LDivFrom(a, b, i, q, r) ==
    IF i = 0
    THEN [q |-> DigitsLimbs(q), r |-> r]
    ELSE CHOOSE result \in
             { LDivFrom(a, b, i - 1, << step.q >> \o q, step.r) :
                   step \in { LDivStep(LBringDown(r, LDigit(a, i)), b) } } : TRUE

\* floor(a / b) and a mod b for a of at least as many limbs as b: the leading
\* limbs of a, one fewer than b has, are smaller than b and start as the
\* remainder
LDivMod(a, b) ==
    CHOOSE result \in
        { LDivFrom(x, y, DigitsPerLimb * (Len(x) - Len(y) + 1), << >>,
                   LShr(x, LimbBits * (Len(x) - Len(y) + 1))) :
              x \in {a}, y \in {b} } : TRUE

\* Number of trailing (low) zero bits of a non-zero a
LTrailingZeros(a) == (CHOOSE i \in 1..LBitLen(a) :
                         LBit(a, i) = 1 /\ \A j \in 1..(i - 1) : LBit(a, j) = 0) - 1

\* The double (-1)^neg * m * 2^e in its canonical form
Double(neg, m, e) ==
    IF m = << >>
    THEN [neg |-> FALSE, m |-> << >>, e |-> 0]
    ELSE [neg |-> neg, m |-> LShr(m, LTrailingZeros(m)), e |-> e + LTrailingZeros(m)]

\* Round to nearest, ties to even: the double nearest to (-1)^neg * x * 2^e,
\* where x is m, or lies strictly between m and m + 1 when sticky
RoundToDouble(neg, m, e, sticky) ==
    IF LBitLen(m) <= MantissaBits
    THEN Double(neg, m, e)
    ELSE LET k     == LBitLen(m) - MantissaBits
             kept  == LShr(m, k)
             half  == LBit(m, k) = 1
             below == sticky \/ \E i \in 1..(k - 1) : LBit(m, i) = 1
             up    == half /\ (below \/ LBit(kept, 1) = 1)
         IN  Double(neg, IF up THEN LAdd(kept, << 1 >>) ELSE kept, e + k)

\* A whole number as a double (exact below 2^53)
ToDouble(n) == Double(n < 0, NatLimbs(Abs(n)), 0)

\* a + b, for evaluated a and b
DAddOf(a, b) ==
    LET e0 == Min(a.e, b.e)
        ma == LShl(a.m, a.e - e0)
        mb == LShl(b.m, b.e - e0)
    IN  IF a.m = << >> THEN b
        ELSE IF b.m = << >> THEN a
        ELSE IF a.neg = b.neg
        THEN RoundToDouble(a.neg, LAdd(ma, mb), e0, FALSE)
        ELSE IF LLess(ma, mb)
        THEN RoundToDouble(b.neg, LSub(mb, ma), e0, FALSE)
        ELSE RoundToDouble(a.neg, LSub(ma, mb), e0, FALSE)

\* a * b, for evaluated a and b
DMulOf(a, b) == RoundToDouble(a.neg # b.neg, LMul(a.m, b.m), a.e + b.e, FALSE)

\* a / b for b # 0 and evaluated a and b: the quotient is taken to at least
\* MantissaBits + 2 bits, the remainder decides the sticky bit
DDivOf(a, b) ==
    IF a.m = << >>
    THEN a
    ELSE LET sh == Max(0, MantissaBits + 2 + LBitLen(b.m) - LBitLen(a.m))
             d  == LDivMod(LShl(a.m, sh), b.m)
         IN  RoundToDouble(a.neg # b.neg, d.q, a.e - b.e - sh, d.r # << >>)

\* The operators of the language: both operands are evaluated, once, first
DAdd(a, b) == CHOOSE r \in { DAddOf(x, y) : x \in {a}, y \in {b} } : TRUE
DSub(a, b) == CHOOSE r \in { DAddOf(x, Double(~y.neg, y.m, y.e)) : x \in {a}, y \in {b} } : TRUE
DMul(a, b) == CHOOSE r \in { DMulOf(x, y) : x \in {a}, y \in {b} } : TRUE
DDiv(a, b) == CHOOSE r \in { DDivOf(x, y) : x \in {a}, y \in {b} } : TRUE

\* |a| <= 2^k
DWithin(a, k) ==
    \/ a.m = << >>
    \/ a.e + LBitLen(a.m) <= k
    \/ a.m = << 1 >> /\ a.e = k

-----------------------------------------------------------------------------
(* Program constants (src/unnamed/part_006 is utils/constants) *)

GridCols        == 50
GridRows        == 80
cellSize        == 24
cellSpacing     == 2
viewportMargin  == 16
spatialGridSize == 100
minZoom         == 5
maxZoom         == 20

\* tuningStore defaultConfig: cursor.sensitivity, cursor.momentum (hundredths),
\* grid.cellSize and grid.cellHeight
cursorSensitivity == 8
cursorMomentum    == 15
gridCellSize      == 42
gridCellHeight    == 42

getWorldWidth  == GridCols * (cellSize + cellSpacing)
getWorldHeight == GridRows * (cellSize + cellSpacing)

-----------------------------------------------------------------------------
(* Bounds of the model *)

MaxNumbers == 2

Ids == {"n1", "n2"}

\* World positions an entity is given, all inside the world: inside one spatial
\* cell, straddling two cells, inside another cell.
EntityPositions ==
    { Point(30, 30), Point(90, 30), Point(150, 130) }

Entities == { [id |-> i, worldPosition |-> p] : i \in Ids, p \in EntityPositions }

-----------------------------------------------------------------------------
(* gameStore: world management *)

\* updateViewport (the store keeps the rectangle it is given)
updateViewport(v) == v

\* updateWorldScale: clamp to [minZoom, maxZoom]
updateWorldScale(s) == Max(minZoom, Min(maxZoom, s))

\* addNumber
StoreAddNumber(nums, n) == Append(nums, n)

\* updateNumber(id, { position, worldPosition }): every entity with that id is
\* replaced by a copy carrying the new position
StoreUpdateNumber(nums, id, p) ==
    [k \in 1..Len(nums) |->
        IF nums[k].id = id THEN [nums[k] EXCEPT !.worldPosition = p] ELSE nums[k]]

\* updateNumber(id, updates) for any Partial<NumberEntity>: the fields of updates
\* (the id among them, if given) overwrite those of every entity with that id
StoreUpdateFields(nums, id, updates) ==
    [k \in 1..Len(nums) |-> IF nums[k].id = id THEN updates @@ nums[k] ELSE nums[k]]

\* removeNumber: filter out every entity with that id
StoreRemoveNumber(nums, id) == SelectSeq(nums, LAMBDA n : n.id # id)

-----------------------------------------------------------------------------
(* WorldSystem: spatial index *)

\* initializeSpatialGrid: the keys "x,y" that are given an (empty) cell
SpatialKeys ==
    { <<gx, gy>> : gx \in 0..(CeilDiv(getWorldWidth, spatialGridSize) - 1),
                   gy \in 0..(CeilDiv(getWorldHeight, spatialGridSize) - 1) }

\* The index as the model keeps it: the cells that hold an entry.  A key of
\* SpatialKeys that is not listed is an existing, empty cell; a key outside
\* SpatialKeys has no cell (spatialGrid.get is undefined).
initializeSpatialGrid == << >>

\* this.spatialGrid.get(key), for a key that has a cell
Cell(grid, key) == IF key \in DOMAIN grid THEN grid[key] ELSE << >>

\* The index with the given cells rewritten
WithCells(grid, cells) ==
    LET keys == { k \in DOMAIN cells \cup DOMAIN grid :
                    IF k \in DOMAIN cells THEN cells[k] # << >> ELSE TRUE }
    IN  [k \in keys |-> IF k \in DOMAIN cells THEN cells[k] ELSE grid[k]]

\* getSpatialCellsForNumber: keys of the cells the footprint overlaps
getSpatialCellsForNumber(n) ==
    { <<gx, gy>> :
        gx \in FloorDiv(n.worldPosition.x, spatialGridSize) ..
               FloorDiv(n.worldPosition.x + cellSize, spatialGridSize),
        gy \in FloorDiv(n.worldPosition.y, spatialGridSize) ..
               FloorDiv(n.worldPosition.y + cellSize, spatialGridSize) }

\* cell.findIndex(n => n.id === id), 0 when there is none
FindIndex(cell, id) ==
    IF \E k \in 1..Len(cell) : cell[k].id = id
    THEN CHOOSE k \in 1..Len(cell) :
            /\ cell[k].id = id
            /\ \A j \in 1..(k - 1) : cell[j].id # id
    ELSE 0

\* cell.splice(index, 1)
Splice(cell, index) ==
    [k \in 1..(Len(cell) - 1) |-> IF k < index THEN cell[k] ELSE cell[k + 1]]

\* removeFromSpatialGrid: in each cell of the entity's footprint (as the object
\* passed in places it) that exists, drop the first entry with its id
removeFromSpatialGrid(grid, n) ==
    WithCells(grid,
        [key \in getSpatialCellsForNumber(n) \cap SpatialKeys |->
            IF FindIndex(Cell(grid, key), n.id) > 0
            THEN Splice(Cell(grid, key), FindIndex(Cell(grid, key), n.id))
            ELSE Cell(grid, key)])

\* updateSpatialGrid: remove, then push the object into each existing cell of
\* its footprint
updateSpatialGrid(grid, n) ==
    LET removed == removeFromSpatialGrid(grid, n)
    IN  WithCells(removed,
            [key \in getSpatialCellsForNumber(n) \cap SpatialKeys |->
                Append(Cell(removed, key), n)])

\* Entity objects a caller can hold a reference to: those of the store and
\* those the index hands out
HeldEntities ==
    { numbers[k] : k \in 1..Len(numbers) } \cup
    UNION { { spatialGrid[key][k] : k \in 1..Len(spatialGrid[key]) } :
            key \in DOMAIN spatialGrid }

\* Ids the index holds: what a query over every cell returns
IndexedIds ==
    UNION { { spatialGrid[key][k].id : k \in 1..Len(spatialGrid[key]) } :
            key \in DOMAIN spatialGrid }

\* Ids of world.numbers
StoredIds == { numbers[k].id : k \in 1..Len(numbers) }

-----------------------------------------------------------------------------
(* WorldSystem: coordinate conversion, in the numbers of the language *)

\* The store's scale (kept in tenths here) as the number it is: 0.7 is the
\* double nearest to 7 / 10
ScaleNumber(s) == DDiv(ToDouble(s), ToDouble(10))

\* A point of whole coordinates as a point of numbers
NumberPoint(p) == Point(ToDouble(p.x), ToDouble(p.y))

\* worldToScreen with the operands of the sum exchanged for a difference
worldToScreenMinus(worldPos, v, s) ==
    Point(DSub(DMul(worldPos.x, ScaleNumber(s)), ToDouble(v.x)),
          DSub(DMul(worldPos.y, ScaleNumber(s)), ToDouble(v.y)))

\* screenToWorld: (screenPos - viewport) / scale
screenToWorldNumber(screenPos, v, s) ==
    Point(DDiv(DSub(screenPos.x, ToDouble(v.x)), ScaleNumber(s)),
          DDiv(DSub(screenPos.y, ToDouble(v.y)), ScaleNumber(s)))

\* worldToScreen: worldPos * scale + viewport
worldToScreenNumber(worldPos, v, s) ==
    Point(DAdd(DMul(worldPos.x, ScaleNumber(s)), ToDouble(v.x)),
          DAdd(DMul(worldPos.y, ScaleNumber(s)), ToDouble(v.y)))

-----------------------------------------------------------------------------
(* WorldSystem: culling query *)

\* worldToScreen with the store's viewport v and scale s (in tenths)
worldToScreen(worldPos, v, s) ==
    Point((worldPos.x * s) \div 10 + v.x, (worldPos.y * s) \div 10 + v.y)

\* isPointInViewport
isPointInViewport(point, v) ==
    /\ point.x >= v.x /\ point.x <= v.x + v.width
    /\ point.y >= v.y /\ point.y <= v.y + v.height

\* The viewport of getVisibleNumbers, grown by 100 on every side
expandedViewport(v) ==
    [x |-> v.x - 100, y |-> v.y - 100, width |-> v.width + 200, height |-> v.height + 200]

\* getSpatialCellsInViewport: the cell keys, gx in the outer loop, gy in the inner
getSpatialCellsInViewport(v) ==
    LET startX == FloorDiv(v.x, spatialGridSize)
        startY == FloorDiv(v.y, spatialGridSize)
        endX   == FloorDiv(v.x + v.width, spatialGridSize)
        endY   == FloorDiv(v.y + v.height, spatialGridSize)
        high   == endY - startY + 1
    IN  [ i \in 1..((endX - startX + 1) * high) |->
            << startX + ((i - 1) \div high), startY + ((i - 1) % high) >> ]

\* this.spatialGrid.get(cellKey): undefined for a key that was never set
spatialGridGet(grid, key) ==
    [ defined  |-> key \in SpatialKeys \/ key \in DOMAIN grid,
      entities |-> Cell(grid, key) ]

\* The body of the forEach without its 'if (cell)': undefined.forEach throws
visitCellUnguarded(cell, v, s) ==
    [ threw   |-> ~cell.defined,
      numbers |-> SelectSeq(cell.entities,
                     LAMBDA n : isPointInViewport(worldToScreen(n.worldPosition, v, s),
                                                  expandedViewport(v))) ]

\* The body of the forEach over the cells: the entities of a cell that exists
\* and whose screen position is in the expanded viewport
visitCell(cell, v, s) ==
    [ threw   |-> FALSE,
      numbers |-> IF cell.defined
                  THEN SelectSeq(cell.entities,
                          LAMBDA n : isPointInViewport(
                                         worldToScreen(n.worldPosition, v, s),
                                         expandedViewport(v)))
                  ELSE << >> ]

\* visibleNumbers after the cells lo..hi: their numbers appended in key order
RECURSIVE Pushed(_, _, _)
Pushed(results, lo, hi) ==
    IF lo > hi THEN << >>
    ELSE IF lo = hi THEN results[lo].numbers
    ELSE Pushed(results, lo, (lo + hi) \div 2) \o Pushed(results, (lo + hi) \div 2 + 1, hi)

\* getVisibleNumbers: the visited cells' results appended in key order
getVisibleNumbers(grid, v, s) ==
    LET keys    == getSpatialCellsInViewport(expandedViewport(v))
        results == [ i \in 1..Len(keys) |-> visitCell(spatialGridGet(grid, keys[i]), v, s) ]
    IN  [ threw   |-> \E i \in 1..Len(keys) : results[i].threw,
          numbers |-> Pushed(results, 1, Len(keys)) ]

-----------------------------------------------------------------------------
(* WorldSystem: viewport *)

\* The upper clamp of constrainToWorldBounds left out
constrainNoUpperClamp(v) ==
    [ x |-> Max(-viewportMargin, v.x), y |-> Max(-viewportMargin, v.y),
      width |-> v.width, height |-> v.height ]

\* constrainToWorldBounds
constrainToWorldBounds(v) ==
    [ x |-> Max(-viewportMargin,
                Min(getWorldWidth - v.width + viewportMargin, v.x)),
      y |-> Max(-viewportMargin,
                Min(getWorldHeight - v.height + viewportMargin, v.y)),
      width  |-> v.width,
      height |-> v.height ]

\* panViewport: translate, constrain, store
panViewport(v, deltaX, deltaY) ==
    updateViewport(constrainToWorldBounds(
        [v EXCEPT !.x = v.x + deltaX, !.y = v.y + deltaY]))

-----------------------------------------------------------------------------
(* gameStore: cursor management *)

\* (position - viewport) / scale, the transform of screenToWorld, for a screen
\* position in hundredths of a pixel, the viewport in pixels and the scale in
\* tenths
screenToWorld(screenPos, v, s) ==
    Point(FloorDiv((screenPos.x - Px(v.x)) * 10, s),
          FloorDiv((screenPos.y - Px(v.y)) * 10, s))

\* updateCursorPosition(position): worldPosition is derived from the store's
\* viewport and scale at the time of the call
updateCursorPosition(c, position) ==
    [c EXCEPT !.position = position,
              !.worldPosition = screenToWorld(position, viewport, scale),
              !.isMoving = TRUE]

\* setCursorMode(mode)
setCursorMode(c, mode) == [c EXCEPT !.mode = mode]

\* updateCursorVelocity(velocity)
updateCursorVelocity(c, velocity) == [c EXCEPT !.velocity = velocity]

-----------------------------------------------------------------------------
(* gameStore: lasso management *)

\* A startLasso that keeps the trail of the lasso before it
startLassoKeepingTrail(center) ==
    [ points |-> Append(lasso.points, center), isActive |-> TRUE, isClosed |-> FALSE,
      capturedNumbers |-> << >>, centerPoint |-> center ]

\* startLasso(center)
startLasso(center) ==
    [ points |-> << center >>, isActive |-> TRUE, isClosed |-> FALSE,
      capturedNumbers |-> << >>, centerPoint |-> center ]

\* addLassoPoint(point)
addLassoPoint(l, point) == [l EXCEPT !.points = Append(l.points, point)]

\* closeLasso()
closeLasso(l) == [l EXCEPT !.isClosed = TRUE]

\* resetLasso()
resetLasso ==
    [ points |-> << >>, isActive |-> FALSE, isClosed |-> FALSE,
      capturedNumbers |-> << >>, centerPoint |-> Point(0, 0) ]

\* gameStore.showFeedback(type, message) at Date.now() = t
showFeedback(type, t) == [isVisible |-> TRUE, type |-> type, timestamp |-> t]

\* gameStore.hideFeedback()
hideFeedback(f) == [f EXCEPT !.isVisible = FALSE]

-----------------------------------------------------------------------------
(* FeedbackSystem.  f is the singleton's state, cfg the tuning config, t *)
(* Date.now() at the call.                                                *)

\* GameConfig.feedback: visualDuration of success and failure, ms
successVisualDuration == 300
failureVisualDuration == 150

visualDuration(type) ==
    IF type = "success" THEN successVisualDuration ELSE failureVisualDuration

\* GameConfig.feedback: the number of entries of audioFrequency of success,
\* failure and modeSwitch
AudioTones == [success |-> 3, failure |-> 2, mode_switch |-> 1]

\* triggerHapticFeedback: the cooldown, ms
hapticCooldownMs == 100

\* showVisualFeedback(type, options): visualEffects.set(`${type}_${Date.now()}`, ...)
showVisualFeedback(f, type, t) ==
    [f EXCEPT !.visualEffects = @ \cup { [type |-> type, startTime |-> t] }]

\* playAudioFeedback(options): one timeout pushed per frequency
playAudioFeedback(f, type) ==
    IF ~f.audioEnabled THEN f
    ELSE [f EXCEPT !.activeAudioTimeouts = @ + AudioTones[type]]

\* A triggerHapticFeedback without the cooldown
triggerHapticFeedbackNoCooldown(f, calls, cfg, pattern, t) ==
    IF ~f.hapticEnabled THEN [system |-> f, driver |-> calls]
    ELSE [ system |-> [f EXCEPT !.lastHapticTime = t],
           driver |-> IF pattern \in {"success", "failure", "light", "sharp"}
                         /\ cfg.feedback.hapticEnabled
                      THEN Append(calls, [at |-> t, pattern |-> pattern])
                      ELSE calls ]

\* triggerHapticFeedback(options) and the trigger...Haptic method of its
\* pattern: the singleton's state and the calls of HapticFeedback.trigger
triggerHapticFeedback(f, calls, cfg, pattern, t) ==
    IF ~f.hapticEnabled THEN [system |-> f, driver |-> calls]
    ELSE IF t - f.lastHapticTime < hapticCooldownMs THEN [system |-> f, driver |-> calls]
    ELSE [ system |-> [f EXCEPT !.lastHapticTime = t],
           driver |-> IF pattern \in {"success", "failure", "light", "sharp"}
                         /\ cfg.feedback.hapticEnabled
                      THEN Append(calls, [at |-> t, pattern |-> pattern])
                      ELSE calls ]

\* triggerSuccess(), up to the haptic call
triggerSuccess(f, calls, cfg, t) ==
    LET seen  == IF cfg.feedback.visualEnabled THEN showVisualFeedback(f, "success", t) ELSE f
        heard == IF cfg.feedback.audioEnabled THEN playAudioFeedback(seen, "success") ELSE seen
    IN  triggerHapticFeedback(heard, calls, cfg, "success", t)

\* triggerFailure(), up to the haptic call: the pattern 'error' becomes 'failure'
triggerFailure(f, calls, cfg, t) ==
    triggerHapticFeedback(
        playAudioFeedback(showVisualFeedback(f, "failure", t), "failure"),
        calls, cfg, "failure", t)

\* triggerModeSwitch()
triggerModeSwitch(f, calls, cfg, t) ==
    LET seen  == IF cfg.feedback.visualEnabled
                 THEN showVisualFeedback(f, "mode_switch", t) ELSE f
        heard == IF cfg.feedback.audioEnabled
                 THEN playAudioFeedback(seen, "mode_switch") ELSE seen
    IN  triggerHapticFeedback(heard, calls, cfg, "light", t)

-----------------------------------------------------------------------------
(* The tuning store: importConfig on the text it is given.  A text is a        *)
(* sequence of tokens: the punctuation of JSON, quoted names and numbers.      *)

\* The numbers that occur in the texts, by their spelling
NumberTokens == ("-5" :> -5) @@ ("0" :> 0) @@ ("15" :> 15) @@ ("42" :> 42)

\* The quoted strings that occur in the texts
StringTokens == {"cursor", "grid", "sensitivity", "momentum", "cellSize", "cellHeight"}

NoValue == [ok |-> FALSE, isObject |-> FALSE, value |-> << >>, next |-> 0]

RECURSIVE ParseValue(_, _)
RECURSIVE ParseMembers(_, _, _)

\* JSON.parse, one value starting at token i: a number, or an object
ParseValue(text, i) ==
    IF i > Len(text) THEN NoValue
    ELSE IF text[i] \in DOMAIN NumberTokens
    THEN [ok |-> TRUE, isObject |-> FALSE, value |-> NumberTokens[text[i]], next |-> i + 1]
    ELSE IF text[i] # "{" THEN NoValue
    ELSE IF i + 1 <= Len(text) /\ text[i + 1] = "}"
    THEN [ok |-> TRUE, isObject |-> TRUE, value |-> << >>, next |-> i + 2]
    ELSE ParseMembers(text, i + 1, << >>)

\* The members of an object from token i on, after those collected in object:
\* "name" : value, then a comma and more members, or the closing brace.  A
\* name that occurs again replaces the earlier value.
ParseMembers(text, i, object) ==
    IF i + 2 > Len(text) \/ text[i] \notin StringTokens \/ text[i + 1] # ":"
    THEN NoValue
    ELSE LET member == ParseValue(text, i + 2)
             grown  == (text[i] :> member.value) @@ object
         IN  IF ~member.ok \/ member.next > Len(text) THEN NoValue
             ELSE IF text[member.next] = "}"
             THEN [ok |-> TRUE, isObject |-> TRUE, value |-> grown,
                   next |-> member.next + 1]
             ELSE IF text[member.next] = ","
             THEN ParseMembers(text, member.next + 1, grown)
             ELSE NoValue

\* JSON.parse(configJson): the whole text is one value, or a SyntaxError
JsonParse(text) ==
    LET parsed == ParseValue(text, 1)
    IN  IF parsed.ok /\ parsed.next = Len(text) + 1 THEN parsed ELSE NoValue

\* An importConfig without the try / catch: the SyntaxError escapes
importConfigJsonUncaught(cfg, text, defaults) ==
    LET parsed == JsonParse(text)
    IN  [ config |-> IF ~parsed.ok THEN cfg
                     ELSE IF parsed.isObject THEN parsed.value @@ defaults ELSE defaults,
          failed |-> FALSE,
          threw  |-> ~parsed.ok ]

\* importConfig(configJson): { ...defaultConfig, ...JSON.parse(configJson) }, or
\* console.error when JSON.parse throws.  Spreading a number adds nothing.
importConfigJson(cfg, text, defaults) ==
    LET parsed == JsonParse(text)
    IN  [ config |-> IF ~parsed.ok THEN cfg
                     ELSE IF parsed.isObject THEN parsed.value @@ defaults ELSE defaults,
          failed |-> ~parsed.ok,
          threw  |-> FALSE ]

-----------------------------------------------------------------------------
(* PerformanceUtils.batchUpdates.  A callback is [id, kind]: a plain one, one  *)
(* that queues a further plain callback when it runs ("again"), or one that    *)
(* throws.  frame counts the animation frames so far.                          *)

initialBatch ==
    [ updateQueue |-> << >>, isScheduled |-> FALSE, scheduled |-> 0,
      frame |-> 0, queued |-> << >>, ran |-> << >> ]

\* A batchUpdates that asks for a frame on every call
batchUpdatesAlwaysScheduling(b, kind) ==
    LET callback == [id |-> Len(b.queued) + 1, kind |-> kind, at |-> b.frame]
    IN  [b EXCEPT !.updateQueue = Append(@, callback),
                  !.queued = Append(@, callback),
                  !.isScheduled = TRUE,
                  !.scheduled = @ + 1]

\* batchUpdates(callback): push, and requestAnimationFrame unless one is pending
batchUpdates(b, kind) ==
    LET callback == [id |-> Len(b.queued) + 1, kind |-> kind, at |-> b.frame]
        pushed   == [b EXCEPT !.updateQueue = Append(@, callback),
                              !.queued = Append(@, callback)]
    IN  IF ~pushed.isScheduled
        THEN [pushed EXCEPT !.isScheduled = TRUE, !.scheduled = @ + 1]
        ELSE pushed

\* updates.forEach(update => update()) from index i on: a callback that throws
\* ends the forEach
RECURSIVE RunUpdates(_, _, _)
RunUpdates(updates, i, b) ==
    IF i > Len(updates) THEN b
    ELSE LET called == [b EXCEPT !.ran = Append(@, [id |-> updates[i].id, frame |-> b.frame])]
         IN  IF updates[i].kind = "throws" THEN called
             ELSE IF updates[i].kind = "again"
             THEN RunUpdates(updates, i + 1, batchUpdates(called, "plain"))
             ELSE RunUpdates(updates, i + 1, called)

\* The frame callback of batchUpdates
flushUpdates(b) ==
    RunUpdates(b.updateQueue, 1, [b EXCEPT !.updateQueue = << >>, !.isScheduled = FALSE])

\* An animation frame: every frame callback that was requested before it runs
RECURSIVE RunFrameCallbacks(_, _)
RunFrameCallbacks(b, count) ==
    IF count = 0 THEN b ELSE RunFrameCallbacks(flushUpdates(b), count - 1)

animationFrame(b) ==
    RunFrameCallbacks([b EXCEPT !.frame = @ + 1, !.scheduled = 0], b.scheduled)

-----------------------------------------------------------------------------
(* Geometry: the ray-casting test of the technical specification *)

\* One iteration of the loop of isPointInLasso: does the edge from vertex j to
\* vertex i flip "inside"?  The comparison
\*     point.x < (xj - xi) * (point.y - yi) / (yj - yi) + xi
\* is evaluated exactly, multiplying through by (yj - yi), which is not 0 here.
EdgeCrosses(point, pi, pj) ==
    /\ (pi.y > point.y) # (pj.y > point.y)
    /\ IF pj.y - pi.y > 0
       THEN (point.x - pi.x) * (pj.y - pi.y) < (pj.x - pi.x) * (point.y - pi.y)
       ELSE (point.x - pi.x) * (pj.y - pi.y) > (pj.x - pi.x) * (point.y - pi.y)

\* isPointInLasso(point, lassoPoints): i runs over the vertices, j is the one
\* before i (the last one for the first); inside flips once per crossing edge
isPointInLasso(point, polygon) ==
    LET n == Len(polygon)
        crossing == { i \in 1..n :
                        EdgeCrosses(point, polygon[i],
                                    polygon[IF i = 1 THEN n ELSE i - 1]) }
    IN  Cardinality(crossing) % 2 = 1

-----------------------------------------------------------------------------
(* Initial state: the store's initialGameState and the components' first render *)

initialViewport == [x |-> 0, y |-> 0, width |-> 0, height |-> 0]

initialLasso ==
    [ points |-> << >>, isActive |-> FALSE, isClosed |-> FALSE,
      capturedNumbers |-> << >>, centerPoint |-> Point(0, 0) ]

initialCursor ==
    [ position |-> Point(0, 0), worldPosition |-> Point(0, 0),
      mode |-> "exploration", velocity |-> Point(0, 0), isMoving |-> FALSE ]

InitWorld ==
    /\ numbers = << >>
    /\ spatialGrid = initializeSpatialGrid
    /\ viewport = initialViewport
    /\ scale = 10

InitGesture ==
    /\ touch = "none"
    /\ holdTimers = << >>
    /\ heldMs = 0
    /\ downs = 0
    /\ cursorVelocity = Point(0, 0)
    /\ isLassoMode = FALSE
    /\ lassoPoints = << >>
    /\ momentumAnimationRef = 0
    /\ intervals = << >>
    /\ gesture = [moves |-> 0, dir |-> Point(0, 0), since |-> 0, vel |-> Point(0, 0)]
    /\ ticks = 0
    /\ modeSwitches = 0

initialFeedback == [isVisible |-> FALSE, type |-> "neutral", timestamp |-> 0]

initialSession == [capturedNumbers |-> << >>]

\* tuningStore defaultConfig
defaultConfig ==
    [ cursor |-> [sensitivity |-> cursorSensitivity, momentum |-> cursorMomentum],
      grid   |-> [cellSize |-> gridCellSize, cellHeight |-> gridCellHeight],
      feedback |-> [hapticEnabled |-> TRUE, audioEnabled |-> TRUE, visualEnabled |-> TRUE] ]

\* Date.now() when the application starts (the epoch is long past)
StartTime == 1000

\* The FeedbackSystem singleton as constructed
initialFeedbackSystem ==
    [ hapticEnabled |-> TRUE, audioEnabled |-> TRUE, lastHapticTime |-> 0,
      visualEffects |-> {}, activeAudioTimeouts |-> 0 ]

InitAux ==
    /\ feedback = initialFeedback
    /\ feedbackSystem = initialFeedbackSystem
    /\ hapticDriver = << >>
    /\ hideTimers = << >>
    /\ now = StartTime
    /\ batch = initialBatch
    /\ session = initialSession
    /\ globalTime = 0
    /\ frameTime = 0
    /\ config = defaultConfig

Init ==
    /\ InitWorld
    /\ InitGesture
    /\ InitAux
    /\ lasso = initialLasso
    /\ cursor = initialCursor
    /\ lastOp = "init"

-----------------------------------------------------------------------------
(* gameStore: persistence *)

\* The store state that persist hands to partialize
storeState ==
    [ session |-> session,
      world   |-> [viewport |-> viewport, scale |-> scale, numbers |-> numbers],
      cursor  |-> cursor,
      lasso   |-> lasso,
      ui      |-> [feedback |-> feedback] ]

\* partialize: the snapshot that is written to storage
partialize(state) ==
    [ session |-> state.session,
      world   |-> [state.world EXCEPT !.numbers = << >>],
      cursor  |-> [state.cursor EXCEPT !.position = Point(0, 0),
                                       !.worldPosition = Point(0, 0),
                                       !.velocity = Point(0, 0),
                                       !.isMoving = FALSE],
      lasso   |-> [ points |-> << >>, isActive |-> FALSE, isClosed |-> FALSE,
                    capturedNumbers |-> << >>, centerPoint |-> Point(0, 0) ],
      ui      |-> state.ui ]

-----------------------------------------------------------------------------
(* Actions: WorldSystem entity management *)

\* WorldSystem.addNumber(number)
AddNumber ==
    \E n \in Entities :
        /\ Len(numbers) < MaxNumbers
        /\ n.id \notin StoredIds    \* createNumberAtGridCell gives each entity a new id
        /\ numbers' = StoreAddNumber(numbers, n)
        /\ spatialGrid' = updateSpatialGrid(spatialGrid, n)
        /\ lastOp' = "addNumber"
        /\ UNCHANGED << auxVars, viewport, scale, lasso, cursor, gestureVars >>

\* WorldSystem.updateNumberPosition(number, newPosition): the store gets a new
\* object with the new position; the index is refreshed with the object passed in
UpdateNumberPosition ==
    \E n \in HeldEntities, p \in EntityPositions :
        /\ numbers' = StoreUpdateNumber(numbers, n.id, p)
        /\ spatialGrid' = updateSpatialGrid(spatialGrid, n)
        /\ lastOp' = "updateNumberPosition"
        /\ UNCHANGED << auxVars, viewport, scale, lasso, cursor, gestureVars >>

\* WorldSystem.removeNumber(numberId)
RemoveNumber ==
    \E id \in Ids :
        /\ IF id \in StoredIds
           THEN LET number == numbers[FindIndex(numbers, id)]
                IN  /\ spatialGrid' = removeFromSpatialGrid(spatialGrid, number)
                    /\ numbers' = StoreRemoveNumber(numbers, id)
           ELSE UNCHANGED << numbers, spatialGrid >>
        /\ lastOp' = "removeNumber"
        /\ UNCHANGED << auxVars, viewport, scale, lasso, cursor, gestureVars >>

NextIndex == AddNumber \/ UpdateNumberPosition \/ RemoveNumber

SpecIndex == Init /\ [][NextIndex]_vars

-----------------------------------------------------------------------------
(* Actions: the number operations of the store and of WorldSystem, called with *)
(* any entity and any update                                                   *)

\* gameStore.addNumber(number), called on the store directly
StoreAdd ==
    \E n \in Entities :
        /\ Len(numbers) < MaxNumbers
        /\ numbers' = StoreAddNumber(numbers, n)
        /\ lastOp' = "storeAddNumber"
        /\ UNCHANGED << auxVars, spatialGrid, viewport, scale, lasso, cursor, gestureVars >>

\* Partial<NumberEntity> arguments of updateNumber: a new position, a new id
NumberUpdates ==
    { [worldPosition |-> p] : p \in EntityPositions } \cup { [id |-> i] : i \in Ids }

\* gameStore.updateNumber(id, updates)
StoreUpdate ==
    \E id \in StoredIds, updates \in NumberUpdates :
        /\ numbers' = StoreUpdateFields(numbers, id, updates)
        /\ lastOp' = "storeUpdateNumber"
        /\ UNCHANGED << auxVars, spatialGrid, viewport, scale, lasso, cursor, gestureVars >>

\* gameStore.removeNumber(id)
StoreRemove ==
    \E id \in StoredIds :
        /\ numbers' = StoreRemoveNumber(numbers, id)
        /\ lastOp' = "storeRemoveNumber"
        /\ UNCHANGED << auxVars, spatialGrid, viewport, scale, lasso, cursor, gestureVars >>

\* WorldSystem.addNumber(number) for any entity the caller passes
WorldAdd ==
    \E n \in Entities :
        /\ Len(numbers) < MaxNumbers
        /\ numbers' = StoreAddNumber(numbers, n)
        /\ spatialGrid' = updateSpatialGrid(spatialGrid, n)
        /\ lastOp' = "addNumber"
        /\ UNCHANGED << auxVars, viewport, scale, lasso, cursor, gestureVars >>

NextStore == StoreAdd \/ StoreUpdate \/ StoreRemove \/ WorldAdd

SpecStore == Init /\ [][NextStore]_vars

-----------------------------------------------------------------------------
(* Actions: viewport *)

\* Viewport rectangles the presentation layer stores: phone-sized, and larger
\* than the world in one or both directions
ViewportSizes ==
    { [width |-> 390, height |-> 700], [width |-> 1400, height |-> 700],
      [width |-> 390, height |-> 2200], [width |-> 1332, height |-> 2112] }

PanDeltas == { -2000, -130, 130, 2000 }

\* gameStore.updateViewport(viewport)
UpdateViewport ==
    \E sz \in ViewportSizes, ox \in {0, 500}, oy \in {0, 500} :
        /\ viewport' = updateViewport(
               [x |-> ox, y |-> oy, width |-> sz.width, height |-> sz.height])
        /\ lastOp' = "updateViewport"
        /\ UNCHANGED << auxVars, numbers, spatialGrid, scale, lasso, cursor, gestureVars >>

\* WorldSystem.panViewport(deltaX, deltaY)
PanViewport ==
    \E dx \in PanDeltas, dy \in PanDeltas :
        /\ viewport' = panViewport(viewport, dx, dy)
        /\ lastOp' = "panViewport"
        /\ UNCHANGED << auxVars, numbers, spatialGrid, scale, lasso, cursor, gestureVars >>

NextViewport == UpdateViewport \/ PanViewport

SpecViewport == Init /\ [][NextViewport]_vars

-----------------------------------------------------------------------------
(* Actions: viewport origin and zoom, for the coordinate conversions *)

\* Scales handed to updateWorldScale, in tenths: below, inside and above the
\* zoom range
ScaleInputs == { 0, 5, 7, 10, 11, 20, 30 }

\* Origins of the stored viewport
ViewportOrigins == { -987, -16, 0, 130, 500 }

\* gameStore.updateWorldScale(scale)
UpdateWorldScale ==
    \E s \in ScaleInputs :
        /\ scale' = updateWorldScale(s)
        /\ lastOp' = "updateWorldScale"
        /\ UNCHANGED << auxVars, numbers, spatialGrid, viewport, lasso, cursor, gestureVars >>

\* gameStore.updateViewport(viewport) with the size kept
MoveViewport ==
    \E ox \in ViewportOrigins, oy \in ViewportOrigins :
        /\ viewport' = updateViewport([viewport EXCEPT !.x = ox, !.y = oy])
        /\ lastOp' = "updateViewport"
        /\ UNCHANGED << auxVars, numbers, spatialGrid, scale, lasso, cursor, gestureVars >>

NextTransform == UpdateWorldScale \/ MoveViewport

\* The culling query over an index that is filled while the viewport origin and
\* the scale change
NextCulling == AddNumber \/ MoveViewport \/ UpdateWorldScale

SpecCulling == Init /\ [][NextCulling]_vars

SpecTransform == Init /\ [][NextTransform]_vars

\* Screen position the cursor is put at
CursorTargets == { Point(Px(100), Px(200)) }

\* gameStore.updateCursorPosition(position)
CursorTo ==
    \E p \in CursorTargets :
        /\ cursor' = updateCursorPosition(cursor, p)
        /\ lastOp' = "updateCursorPosition"
        /\ UNCHANGED << auxVars, worldVars, lasso, gestureVars >>

NextCursor == CursorTo \/ MoveViewport \/ UpdateWorldScale

SpecCursor == Init /\ [][NextCursor]_vars

-----------------------------------------------------------------------------
(* Actions: the store's lasso operations, over a populated world *)

MaxTrail == 5

\* Corners of a square of side 60 around the entity at (40, 20)
TrailPoints == { Point(0, 0), Point(60, 0), Point(60, 60), Point(0, 60) }

\* A world holding one entity inside that square and one outside it
InitLasso ==
    LET inside  == [id |-> "n1", worldPosition |-> Point(40, 20)]
        outside == [id |-> "n2", worldPosition |-> Point(90, 30)]
    IN  /\ numbers = StoreAddNumber(StoreAddNumber(<< >>, inside), outside)
        /\ spatialGrid =
               updateSpatialGrid(updateSpatialGrid(initializeSpatialGrid, inside),
                                 outside)
        /\ viewport = initialViewport
        /\ scale = 10
        /\ InitGesture
        /\ InitAux
        /\ lasso = initialLasso
        /\ cursor = initialCursor
        /\ lastOp = "init"

StartLasso ==
    \E center \in TrailPoints :
        /\ lasso' = startLasso(center)
        /\ lastOp' = "startLasso"
        /\ UNCHANGED << auxVars, worldVars, cursor, gestureVars >>

AddLassoPoint ==
    \E point \in TrailPoints :
        /\ Len(lasso.points) < MaxTrail
        /\ lasso' = addLassoPoint(lasso, point)
        /\ lastOp' = "addLassoPoint"
        /\ UNCHANGED << auxVars, worldVars, cursor, gestureVars >>

CloseLasso ==
    /\ lasso' = closeLasso(lasso)
    /\ lastOp' = "closeLasso"
    /\ UNCHANGED << auxVars, worldVars, cursor, gestureVars >>

ResetLasso ==
    /\ lasso' = resetLasso
    /\ lastOp' = "resetLasso"
    /\ UNCHANGED << auxVars, worldVars, cursor, gestureVars >>

NextLasso == StartLasso \/ AddLassoPoint \/ CloseLasso \/ ResetLasso

SpecLasso == InitLasso /\ [][NextLasso]_vars

-----------------------------------------------------------------------------
(* Actions: the MDRInterface pan responder and its hold timer.  Time passes in *)
(* steps of ClockStep ms; a timer that is due runs before time passes again.   *)

\* The delay of the setTimeout of onPanResponderGrant, set later than the source
HoldDelayLate == 325 + 75

\* The delay of the setTimeout of onPanResponderGrant, in ms
HoldDelayMs == 325

ClockStep == 25
HoldCap   == 400
MaxDowns  == 2


\* Dimensions.get('window'), a phone in portrait
screenWidth  == Px(360)
screenHeight == Px(640)

\* Screen points a finger reports to the interface responder
IfaceTouchPoints == { Point(Px(5), Px(5)), Point(Px(180), Px(300)) }

\* onPanResponderGrant: schedule the switch to pinpoint
IfaceGrant ==
    /\ touch = "none"
    /\ downs < MaxDowns
    /\ touch' = "iface"
    /\ downs' = downs + 1
    /\ heldMs' = 0
    /\ holdTimers' = Append(holdTimers, HoldDelayMs)
    /\ gesture' = [moves |-> 0, dir |-> Point(0, 0), since |-> 0, vel |-> Point(0, 0)]
    /\ UNCHANGED modeSwitches
    /\ lastOp' = "ifaceGrant"
    /\ UNCHANGED << auxVars, worldVars, lasso, cursor, cursorVelocity, isLassoMode,
                    lassoPoints, momentumAnimationRef, intervals, ticks >>

\* onPanResponderMove: the cursor is put at the touch point
IfaceMove ==
    \E p \in IfaceTouchPoints :
        /\ touch = "iface"
        /\ cursor' = updateCursorPosition(cursor, p)
        /\ lastOp' = "ifaceMove"
        /\ UNCHANGED << auxVars, worldVars, lasso, gestureVars >>

\* onPanResponderRelease
IfaceRelease ==
    /\ touch = "iface"
    /\ touch' = "none"
    /\ cursor' = setCursorMode(cursor, "exploration")
    /\ UNCHANGED modeSwitches
    /\ lastOp' = "ifaceRelease"
    /\ UNCHANGED << auxVars, worldVars, lasso, holdTimers, heldMs, downs, cursorVelocity,
                    isLassoMode, lassoPoints, momentumAnimationRef, intervals,
                    gesture, ticks >>

\* The callback of the setTimeout of onPanResponderGrant
HoldTimerFires ==
    \E i \in 1..Len(holdTimers) :
        /\ holdTimers[i] <= 0
        /\ \A j \in 1..(i - 1) : holdTimers[j] > 0
        /\ holdTimers' = Splice(holdTimers, i)
        /\ cursor' = setCursorMode(cursor, "pinpoint")
        /\ UNCHANGED modeSwitches
        /\ lastOp' = "holdTimer"
        /\ UNCHANGED << auxVars, worldVars, lasso, touch, heldMs, downs, cursorVelocity,
                        isLassoMode, lassoPoints, momentumAnimationRef, intervals,
                        gesture, ticks >>

\* ClockStep ms pass
ClockTick ==
    /\ \A i \in 1..Len(holdTimers) : holdTimers[i] > 0
    /\ holdTimers # << >> \/ (touch # "none" /\ heldMs < HoldCap)
    /\ holdTimers' = [i \in 1..Len(holdTimers) |-> holdTimers[i] - ClockStep]
    /\ heldMs' = IF touch # "none" THEN Min(heldMs + ClockStep, HoldCap) ELSE heldMs
    /\ UNCHANGED modeSwitches
    /\ lastOp' = "clock"
    /\ UNCHANGED << auxVars, worldVars, lasso, cursor, touch, downs, cursorVelocity,
                    isLassoMode, lassoPoints, momentumAnimationRef, intervals,
                    gesture, ticks >>

NextHold == IfaceGrant \/ IfaceMove \/ IfaceRelease \/ HoldTimerFires \/ ClockTick

SpecHold == Init /\ [][NextHold]_vars

-----------------------------------------------------------------------------
(* MDRTerminalGrid: cursor physics.  Lengths and momentum velocities are fixed *)
(* point (Px); gesture velocities are in tenths, displacements in pixels.  The *)
(* zoom-out scale of fast swipes (a render transform) is not modelled.         *)

\* Math.sqrt of a sum of two squares, rounded down
Hypot(a, b) ==
    CHOOSE r \in 0..(Abs(a) + Abs(b)) :
        r * r <= a * a + b * b /\ (r + 1) * (r + 1) > a * a + b * b

\* Math.sqrt(v.x * v.x + v.y * v.y) > limit, for a fixed-point velocity v
SpeedAbove(v, limit) ==
    IF Abs(v.x) > limit \/ Abs(v.y) > limit
    THEN TRUE
    ELSE v.x * v.x + v.y * v.y > limit * limit

\* Clamp to the playable rectangle shrunk by margin (the bottom is 130 in both
\* regimes)
ClampToBounds(p, margin) ==
    Point(Max(Px(margin), Min(screenWidth - Px(margin), p.x)),
          Max(Px(margin), Min(screenHeight - Px(130), p.y)))

\* velocityBoost = Math.min(gestureSpeed / 500, 3), in thousandths
velocityBoost(vx, vy) == Min(Hypot(vx, vy) \div 5, 3000)

\* Exploration move: d * dynamicSensitivity * directMultiplier, where
\* dynamicSensitivity = sensitivity * (1 + boost * 0.8) and
\* directMultiplier = 0.2 + boost * 0.15
explorationDelta(d, boost) ==
    MulDiv(MulDiv(Px(d) * cursorSensitivity, 10000 + 8 * boost, 10000),
           2000 + (3 * boost) \div 2, 10000)

\* Exploration move: v * momentum * (1 + boost * 1.5)
explorationVelocity(v, boost) ==
    MulDiv(MulDiv(v * cursorMomentum, 1, 10), 2000 + 3 * boost, 2000)

\* Joystick steering: speed = min(distance / 60, 1)^2 * 3 along the offset
\* direction, nothing inside the dead zone of 8
joystickStep(offset, distance) ==
    LET capped == Min(distance, 60)
        speed  == (Px(3) * capped * capped) \div (60 * 60)
    IN  IF distance > 8 THEN MulDiv(speed, offset, distance) ELSE 0

\* A boost whose bands take their lower threshold in
trackballMultiplierInclusive(vx, vy) ==
    IF vx * vx + vy * vy >= 10000 * 10000 THEN 40
    ELSE IF vx * vx + vy * vy >= 5000 * 5000 THEN 25
    ELSE IF vx * vx + vy * vy >= 2000 * 2000 THEN 18
    ELSE 10

\* Release: trackballMultiplier / momentum, in tenths
trackballMultiplier(vx, vy) ==
    IF vx * vx + vy * vy > 10000 * 10000 THEN 40
    ELSE IF vx * vx + vy * vy > 5000 * 5000 THEN 25
    ELSE IF vx * vx + vy * vy > 2000 * 2000 THEN 18
    ELSE 10

\* Release: initial trackball velocity, releaseVel * trackballMultiplier
releaseVelocity(vx, vy) ==
    Point(MulDiv(vx * cursorMomentum, trackballMultiplier(vx, vy), 100),
          MulDiv(vy * cursorMomentum, trackballMultiplier(vx, vy), 100))

\* A friction that speeds the ball up as it comes to rest
frictionGaining(v) ==
    IF SpeedAbove(v, Px(300)) THEN 985
    ELSE IF SpeedAbove(v, Px(150)) THEN 975
    ELSE IF SpeedAbove(v, Px(75)) THEN 965
    ELSE 1070

\* applyMomentum: the speed-dependent friction, in thousandths
friction(v) ==
    IF SpeedAbove(v, Px(300)) THEN 985
    ELSE IF SpeedAbove(v, Px(150)) THEN 975
    ELSE IF SpeedAbove(v, Px(75)) THEN 965
    ELSE 930

\* applyMomentum: prev * friction
decayed(v) == Point(MulDiv(v.x, friction(v), 1000), MulDiv(v.y, friction(v), 1000))

\* applyMomentum: Math.abs(newVelX) < 0.02 && Math.abs(newVelY) < 0.02
atRest(v) == Abs(v.x) < 2 /\ Abs(v.y) < 2

\* Ids of the live intervals
LiveIntervals == { intervals[k].id : k \in 1..Len(intervals) }

\* clearInterval(id)
clearInterval(ivs, id) == SelectSeq(ivs, LAMBDA iv : iv.id # id)

-----------------------------------------------------------------------------
(* Actions: the MDRTerminalGrid pan responder, its momentum interval and its    *)
(* edge-clamp effect                                                           *)

MaxFlicks     == 1
MaxDecayTicks == 200
MaxSlowTicks  == 3
SustainedMoves == 3
HoldStep      == 175

\* Move events of a drag to the right: accumulated displacement and velocity
DragMoves == { [dx |-> 50, dy |-> 0, vx |-> 2, vy |-> 0] }

\* Move events of a steady drag to the right: it is reported halfway and at its
\* end, or at its end only
SteadyDragMoves ==
    { [dx |-> 25, dy |-> 0, vx |-> 2, vy |-> 0], [dx |-> 50, dy |-> 0, vx |-> 2, vy |-> 0] }

\* Release velocities of a tap and of a slow flick
SlowFlicks == { Point(0, 0), Point(2, 0) }

\* Release velocities that start the decay in each friction band
FastFlicks ==
    { Point(0, 0), Point(3, -4), Point(2000, 0), Point(3000, 4000),
      Point(6000, 8000), Point(-12000, 0) }

\* onPanResponderGrant: only lastPanTime is written; a momentum interval that
\* is running is left running
GridGrant(limit) ==
    /\ touch = "none"
    /\ downs < limit
    /\ touch' = "grid"
    /\ downs' = downs + 1
    /\ heldMs' = 0
    /\ gesture' = [moves |-> 0, dir |-> Point(0, 0), since |-> 0, vel |-> Point(0, 0)]
    /\ UNCHANGED modeSwitches
    /\ lastOp' = "gridGrant"
    /\ UNCHANGED << auxVars, worldVars, lasso, cursor, holdTimers, cursorVelocity, isLassoMode,
                    lassoPoints, momentumAnimationRef, intervals, ticks >>

\* The finger rests: HoldStep ms pass with the touch held
GridHold ==
    /\ touch = "grid"
    /\ heldMs < HoldCap
    /\ heldMs' = Min(heldMs + HoldStep, HoldCap)
    /\ UNCHANGED modeSwitches
    /\ lastOp' = "gridHold"
    /\ UNCHANGED << auxVars, worldVars, lasso, cursor, touch, holdTimers, downs, cursorVelocity,
                    isLassoMode, lassoPoints, momentumAnimationRef, intervals,
                    gesture, ticks >>

\* The long-press threshold of the move handler, ms
longPressMs == 300

\* ms the move handler has been running when it reads the clock a second time
HandlerRunMs == {0, 2}

\* onPanResponderMove
GridMove(moves) ==
    \E g \in moves, elapsed \in HandlerRunMs :
        /\ touch = "grid"
        /\ IF isLassoMode
           THEN \* joystick steering around the initial touch point
                LET distance == Hypot(g.dx, g.dy)
                    target   == Point(cursor.position.x + joystickStep(g.dx, distance),
                                      cursor.position.y + joystickStep(g.dy, distance))
                IN  IF distance > 8
                    THEN /\ cursor' = updateCursorPosition(cursor, ClampToBounds(target, 10))
                         /\ lassoPoints' = Append(lassoPoints, ClampToBounds(target, 10))
                         /\ UNCHANGED cursorVelocity
                    ELSE UNCHANGED << cursor, lassoPoints, cursorVelocity >>
           ELSE \* exploration: displacement scaled by the sensitivity
                LET boost  == velocityBoost(g.vx, g.vy)
                    target == Point(cursor.position.x + explorationDelta(g.dx, boost),
                                    cursor.position.y + explorationDelta(g.dy, boost))
                    newVel == Point(explorationVelocity(g.vx, boost),
                                    explorationVelocity(g.vy, boost))
                IN  /\ cursor' = updateCursorVelocity(
                                    updateCursorPosition(cursor, ClampToBounds(target, 20)),
                                    newVel)
                    /\ cursorVelocity' = newVel
                    /\ UNCHANGED lassoPoints
        \* if (currentTime - lastPanTime.current > 300) triggerModeSwitch(), in the
        \* exploration branch; lastPanTime.current was set when the handler began
        /\ modeSwitches' = IF ~isLassoMode /\ elapsed > longPressMs
                           THEN modeSwitches + 1 ELSE modeSwitches
        /\ gesture' = [moves |-> IF gesture.dir = Point(g.dx, g.dy)
                                 THEN Min(gesture.moves + 1, SustainedMoves) ELSE 1,
                       dir |-> Point(g.dx, g.dy),
                       since |-> IF gesture.moves = 0 THEN heldMs ELSE gesture.since,
                       vel |-> Point(g.vx, g.vy)]
        /\ lastOp' = "gridMove"
        /\ UNCHANGED << auxVars, worldVars, lasso, touch, holdTimers, heldMs, downs, isLassoMode,
                        momentumAnimationRef, intervals, ticks >>

\* onPanResponderRelease
GridRelease(flicks) ==
    \E v \in flicks :
        /\ touch = "grid"
        /\ touch' = "none"
        /\ IF isLassoMode
           THEN /\ isLassoMode' = FALSE
                /\ cursor' = setCursorMode(cursor, "exploration")
                /\ lassoPoints' = << >>
                /\ UNCHANGED << cursorVelocity, momentumAnimationRef, intervals >>
           ELSE LET initialVel == releaseVelocity(v.x, v.y)
                    id == CHOOSE i \in 1..(Len(intervals) + 1) : i \notin LiveIntervals
                IN  /\ cursorVelocity' = initialVel
                    /\ cursor' = updateCursorVelocity(cursor, initialVel)
                    \* setInterval(applyMomentum, 6): applyMomentum keeps the
                    \* cursor.position of the render that created it
                    /\ intervals' = Append(intervals,
                                           [id |-> id, origin |-> cursor.position])
                    /\ momentumAnimationRef' = id
                    /\ UNCHANGED << isLassoMode, lassoPoints >>
        /\ ticks' = 0
        /\ heldMs' = 0
        /\ gesture' = [moves |-> 0, dir |-> Point(0, 0), since |-> 0, vel |-> v]
        /\ UNCHANGED modeSwitches
        /\ lastOp' = IF isLassoMode THEN "lassoRelease" ELSE "gridRelease"
        /\ UNCHANGED << auxVars, worldVars, lasso, holdTimers, downs >>

\* ms between two runs of the 6 ms interval callback: none when a late
\* callback runs right after the one before it, or the period
TickGaps == {0, 6}

\* applyMomentum, run by one of the live intervals gap ms after the previous
\* run (applyMomentum reads no clock); ticks counts the runs since the last
\* release up to limit
MomentumTick(limit) ==
    \E k \in 1..Len(intervals), gap \in TickGaps :
        LET newVel == decayed(cursorVelocity)
            target == Point(intervals[k].origin.x + newVel.x,
                            intervals[k].origin.y + newVel.y)
        IN  /\ IF atRest(newVel)
               THEN /\ intervals' = IF momentumAnimationRef # 0
                                     THEN clearInterval(intervals, momentumAnimationRef)
                                     ELSE intervals
                    /\ momentumAnimationRef' = 0
                    /\ cursor' = updateCursorVelocity(cursor, Point(0, 0))
                    /\ cursorVelocity' = Point(0, 0)
                    /\ lastOp' = "momentumRest"
               ELSE /\ cursor' = updateCursorVelocity(
                                    updateCursorPosition(cursor, ClampToBounds(target, 20)),
                                    newVel)
                    /\ cursorVelocity' = newVel
                    /\ lastOp' = "momentumMove"
                    /\ UNCHANGED << momentumAnimationRef, intervals >>
            /\ UNCHANGED modeSwitches
            /\ ticks' = Min(ticks + 1, limit)
            /\ frameTime' = gap
            /\ UNCHANGED << feedback, systemVars, session, batch, globalTime, config, worldVars, lasso,
                            touch, holdTimers, heldMs, downs,
                            isLassoMode, lassoPoints, gesture >>

\* Frame times the animation loop sees: a frame with no time elapsed, or 16 ms
FrameTimes == {0, 16}

MaxGlobalTime == 16

\* animate: setGlobalTime(prev => prev + frameTime * 0.001); the jitter offsets
\* of the grid cells are functions of globalTime
Animate ==
    \E ft \in FrameTimes :
        /\ globalTime + ft <= MaxGlobalTime
        /\ globalTime' = globalTime + ft
        /\ frameTime' = ft
        /\ lastOp' = "animate"
        /\ UNCHANGED << feedback, systemVars, session, batch, config, worldVars, lasso, cursor,
                        gestureVars >>

\* The edge-drag effect: it runs after a render in which cursor.position changed
EdgeClamp ==
    /\ lastOp # "init"
    /\ ClampToBounds(cursor.position, 20) # cursor.position
    /\ cursor' = updateCursorPosition(cursor, ClampToBounds(cursor.position, 20))
    /\ lastOp' = "edgeClamp"
    /\ UNCHANGED << auxVars, worldVars, lasso, gestureVars >>

\* gameStore.resetGame(): set(initialGameState)
ResetGame ==
    /\ touch = "none"
    /\ lastOp # "resetGame"
    /\ numbers' = << >>
    /\ viewport' = initialViewport
    /\ scale' = 10
    /\ lasso' = initialLasso
    /\ cursor' = initialCursor
    /\ feedback' = initialFeedback
    /\ session' = initialSession
    /\ lastOp' = "resetGame"
    /\ UNCHANGED << systemVars, batch, frameVars, config, spatialGrid, gestureVars >>

NextGrid ==
    \/ GridGrant(MaxDowns)
    \/ GridHold
    \/ GridMove(DragMoves)
    \/ GridRelease(SlowFlicks)
    \/ MomentumTick(MaxSlowTicks)
    \/ EdgeClamp
    \/ ResetGame
    \/ Animate

SpecGrid == Init /\ [][NextGrid]_vars

\* Drags reported by one or by several move events
NextDrag ==
    \/ GridGrant(MaxDowns)
    \/ GridMove(SteadyDragMoves)
    \/ GridRelease(SlowFlicks)
    \/ MomentumTick(MaxSlowTicks)

SpecDrag == Init /\ [][NextDrag]_vars

NextMomentum ==
    \/ GridGrant(MaxFlicks)
    \/ GridRelease(FastFlicks)
    \/ MomentumTick(MaxDecayTicks)

SpecMomentum == Init /\ [][NextMomentum]_vars

-----------------------------------------------------------------------------
(* Actions: the feedback triggers and their hide timers.  Time passes in steps *)
(* of FeedbackStep ms; a timer that is due runs before time passes again.      *)

FeedbackStep    == 50
MaxFeedbackTime == 200
MaxPendingHides == 2
MaxAudioTimeouts == 6
MaxVisualEffects == 3
MaxHapticCalls   == 3

\* The effects, tones and driver calls on record stay within the bounds
WithinFeedbackBounds(done) ==
    /\ Cardinality(done.system.visualEffects) <= MaxVisualEffects
    /\ done.system.activeAudioTimeouts <= MaxAudioTimeouts
    /\ Len(done.driver) <= MaxHapticCalls

\* FeedbackSystem.triggerSuccess()
TriggerSuccess ==
    LET done == triggerSuccess(feedbackSystem, hapticDriver, config, now)
    IN  /\ Len(hideTimers) < MaxPendingHides
        /\ WithinFeedbackBounds(done)
        /\ feedbackSystem' = done.system
        /\ hapticDriver' = done.driver
        /\ feedback' = showFeedback("success", now)
        /\ hideTimers' = Append(hideTimers, successVisualDuration)
        /\ lastOp' = "triggerSuccess"
        /\ UNCHANGED << now, session, batch, frameVars, config, worldVars, lasso, cursor, gestureVars >>

\* FeedbackSystem.triggerFailure()
TriggerFailure ==
    LET done == triggerFailure(feedbackSystem, hapticDriver, config, now)
    IN  /\ Len(hideTimers) < MaxPendingHides
        /\ WithinFeedbackBounds(done)
        /\ feedbackSystem' = done.system
        /\ hapticDriver' = done.driver
        /\ feedback' = showFeedback("failure", now)
        /\ hideTimers' = Append(hideTimers, failureVisualDuration)
        /\ lastOp' = "triggerFailure"
        /\ UNCHANGED << now, session, batch, frameVars, config, worldVars, lasso, cursor, gestureVars >>

\* FeedbackSystem.triggerModeSwitch()
TriggerModeSwitch ==
    LET done == triggerModeSwitch(feedbackSystem, hapticDriver, config, now)
    IN  /\ WithinFeedbackBounds(done)
        /\ feedbackSystem' = done.system
        /\ hapticDriver' = done.driver
        /\ lastOp' = "triggerModeSwitch"
        /\ UNCHANGED << feedback, hideTimers, now, session, batch, frameVars, config, worldVars, lasso,
                        cursor, gestureVars >>

\* The callback of a trigger's setTimeout: hideFeedback()
HideTimerFires ==
    \E i \in 1..Len(hideTimers) :
        /\ hideTimers[i] <= 0
        /\ \A j \in 1..(i - 1) : hideTimers[j] > 0
        /\ hideTimers' = Splice(hideTimers, i)
        /\ feedback' = hideFeedback(feedback)
        /\ lastOp' = "hideFeedback"
        /\ UNCHANGED << feedbackSystem, hapticDriver, now, session, batch, frameVars, config,
                        worldVars, lasso, cursor, gestureVars >>

\* FeedbackStep ms pass
FeedbackClockTick ==
    /\ \A i \in 1..Len(hideTimers) : hideTimers[i] > 0
    /\ now + FeedbackStep <= StartTime + MaxFeedbackTime
    /\ now' = now + FeedbackStep
    /\ hideTimers' = [ i \in 1..Len(hideTimers) |-> hideTimers[i] - FeedbackStep ]
    /\ lastOp' = "feedbackClock"
    /\ UNCHANGED << feedback, feedbackSystem, hapticDriver, session, batch, frameVars, config,
                    worldVars, lasso, cursor, gestureVars >>

\* The banner and its hide timers
NextBanner == TriggerSuccess \/ TriggerFailure \/ HideTimerFires \/ FeedbackClockTick

SpecBanner == Init /\ [][NextBanner]_vars

-----------------------------------------------------------------------------
(* Actions: the tuning store.  MDRTerminalGrid reads config.grid and            *)
(* config.cursor from the store on every render, as stored.                     *)

\* Values a caller writes: negative, zero, and two in range
ConfigValues == {-5, 0, 15, 42}

\* updateConfig(section, updates): the section's fields overwritten by updates
updateConfig(cfg, section, updates) ==
    [cfg EXCEPT ![section] = updates @@ cfg[section]]

\* importConfig(configJson), for JSON that parses: the imported sections
\* replace those of defaultConfig
importConfig(imported) == imported @@ defaultConfig

\* Partial<TuningConfig[section]> arguments of updateConfig
SectionUpdates(section) ==
    IF section = "cursor"
    THEN { [sensitivity |-> v] : v \in ConfigValues }
            \cup { [momentum |-> v] : v \in ConfigValues }
    ELSE { [cellSize |-> v] : v \in ConfigValues }
            \cup { [cellHeight |-> v] : v \in ConfigValues }

\* Parsed arguments of importConfig: a cursor section, a grid section
ImportedConfigs ==
    { [cursor |-> [sensitivity |-> v, momentum |-> cursorMomentum]] : v \in ConfigValues }
        \cup { [grid |-> [cellSize |-> v, cellHeight |-> v]] : v \in ConfigValues }

UpdateConfig ==
    \E section \in {"cursor", "grid"} :
        \E updates \in SectionUpdates(section) :
            /\ config' = updateConfig(config, section, updates)
            /\ lastOp' = "updateConfig"
            /\ UNCHANGED << feedback, systemVars, session, batch, frameVars, worldVars, lasso,
                        cursor,
                            gestureVars >>

ImportConfig ==
    \E imported \in ImportedConfigs :
        /\ config' = importConfig(imported)
        /\ lastOp' = "importConfig"
        /\ UNCHANGED << feedback, systemVars, session, batch, frameVars, worldVars, lasso,
                        cursor,
                        gestureVars >>

\* resetToDefaults()
ResetToDefaults ==
    /\ config # defaultConfig
    /\ config' = defaultConfig
    /\ lastOp' = "resetToDefaults"
    /\ UNCHANGED << feedback, systemVars, session, batch, frameVars, worldVars, lasso,
                        cursor, gestureVars >>

NextConfig == UpdateConfig \/ ImportConfig \/ ResetToDefaults

SpecConfig == Init /\ [][NextConfig]_vars

\* Parsed arguments of importConfig that give only one field of a section
PartialConfigs ==
    { [cursor |-> [sensitivity |-> v]] : v \in ConfigValues }
        \cup { [grid |-> [cellHeight |-> v]] : v \in ConfigValues }

\* importConfig(configJson) for JSON that gives whole or partial sections
ImportAnyConfig ==
    \E imported \in ImportedConfigs \cup PartialConfigs :
        /\ config' = importConfig(imported)
        /\ lastOp' = "importConfig"
        /\ UNCHANGED << feedback, systemVars, session, batch, frameVars, worldVars, lasso,
                        cursor,
                        gestureVars >>

NextImport == UpdateConfig \/ ImportAnyConfig \/ ResetToDefaults

SpecImport == Init /\ [][NextImport]_vars

\* tuningStore.updateConfig('feedback', { [option]: enabled })
SetFeedbackOption(options) ==
    \E option \in options, enabled \in BOOLEAN :
        /\ config.feedback[option] # enabled
        /\ config' = updateConfig(config, "feedback", (option :> enabled))
        /\ lastOp' = "updateConfig"
        /\ UNCHANGED << feedback, systemVars, session, batch, frameVars, worldVars, lasso, cursor,
                        gestureVars >>

\* FeedbackSystem.setHapticEnabled(enabled)
SetHapticEnabled ==
    \E enabled \in BOOLEAN :
        /\ feedbackSystem.hapticEnabled # enabled
        /\ feedbackSystem' = [feedbackSystem EXCEPT !.hapticEnabled = enabled]
        /\ lastOp' = "setHapticEnabled"
        /\ UNCHANGED << feedback, hapticDriver, hideTimers, now, session, batch, frameVars, config,
                        worldVars, lasso, cursor, gestureVars >>

\* The triggers under every setting of the visual and audio options
NextFeedback ==
    \/ TriggerSuccess
    \/ TriggerFailure
    \/ TriggerModeSwitch
    \/ HideTimerFires
    \/ FeedbackClockTick
    \/ SetFeedbackOption({"audioEnabled", "visualEnabled"})

SpecFeedback == Init /\ [][NextFeedback]_vars

\* The triggers under every setting of the two haptic switches
NextHaptic ==
    \/ TriggerSuccess
    \/ TriggerFailure
    \/ TriggerModeSwitch
    \/ HideTimerFires
    \/ FeedbackClockTick
    \/ SetFeedbackOption({"hapticEnabled"})
    \/ SetHapticEnabled

SpecHaptic == Init /\ [][NextHaptic]_vars

\* Texts that are JSON: a cursor section, a grid section, a number, {}
JsonTexts ==
    { << "{", "cursor", ":", "{", "sensitivity", ":", "15", ",", "momentum", ":", "42",
         "}", "}" >>,
      << "{", "grid", ":", "{", "cellSize", ":", "15", ",", "cellHeight", ":", "15", "}",
         "}" >>,
      << "42" >>,
      << "{", "}" >> }

\* Texts that are not JSON: nothing, an open brace, a missing value, a trailing
\* comma, a missing colon, text after the value, a bare name
BrokenTexts ==
    { << >>,
      << "{" >>,
      << "{", "cursor", ":", "}" >>,
      << "{", "cursor", ":", "{", "sensitivity", ":", "15", ",", "}", "}" >>,
      << "{", "grid", "{", "}", "}" >>,
      << "{", "}", "}" >>,
      << "cursor" >> }

\* importConfig(configJson) on any text
ImportConfigJson ==
    \E text \in JsonTexts \cup BrokenTexts :
        LET done == importConfigJson(config, text, defaultConfig)
        IN  /\ config' = done.config
            /\ lastOp' = IF done.threw THEN "importConfigThrew"
                         ELSE IF done.failed THEN "importConfigFailed"
                         ELSE "importConfig"
            /\ UNCHANGED << feedback, systemVars, session, batch, frameVars, worldVars, lasso,
                            cursor, gestureVars >>

NextImportJson == UpdateConfig \/ ImportConfigJson \/ ResetToDefaults

SpecImportJson == Init /\ [][NextImportJson]_vars

-----------------------------------------------------------------------------
(* Actions: batched updates *)

MaxCallbacks == 5
MaxFrames    == 5

\* PerformanceUtils.batchUpdates(callback), called between two frames
BatchUpdates ==
    \E kind \in {"plain", "again", "throws"} :
        /\ Len(batch.queued) + (IF kind = "again" THEN 2 ELSE 1) <= MaxCallbacks
        /\ batch' = batchUpdates(batch, kind)
        /\ lastOp' = "batchUpdates"
        /\ UNCHANGED << feedback, systemVars, session, frameVars, config, worldVars, lasso,
                        cursor, gestureVars >>

\* The next animation frame
AnimationFrame ==
    /\ batch.frame < MaxFrames
    /\ batch' = animationFrame(batch)
    /\ lastOp' = "animationFrame"
    /\ UNCHANGED << feedback, systemVars, session, frameVars, config, worldVars, lasso,
                    cursor, gestureVars >>

NextBatch ==
    \/ BatchUpdates
    \/ AnimationFrame

SpecBatch == Init /\ [][NextBatch]_vars

-----------------------------------------------------------------------------
(* Claims *)

\* C3: after any sequence of addNumber, updateNumberPosition and removeNumber
\* the ids held in the spatial cells are exactly the ids of world.numbers.
SpatialIndexConsistent == IndexedIds = StoredIds

ViewportWithinMargin ==
    /\ viewport.x >= -viewportMargin
    /\ viewport.x + viewport.width <= getWorldWidth + viewportMargin
    /\ viewport.y >= -viewportMargin
    /\ viewport.y + viewport.height <= getWorldHeight + viewportMargin

ViewportFitsWorld ==
    /\ viewport.width <= getWorldWidth + 2 * viewportMargin
    /\ viewport.height <= getWorldHeight + 2 * viewportMargin

\* C5 as stated: after panViewport the viewport lies within the margin around
\* the world, whatever the viewport's size.
PanViewportClamped == lastOp = "panViewport" => ViewportWithinMargin

\* C5 amended: after panViewport of a viewport no wider than worldWidth + 2 *
\* margin and no higher than worldHeight + 2 * margin, the viewport lies within
\* the margin around the world on both axes.
PanViewportClampedWhenFits ==
    (lastOp = "panViewport" /\ ViewportFitsWorld) => ViewportWithinMargin

\* C5 witness: a pan that the upper clamp cut short, on a viewport that fits
PanViewportHitUpperClamp ==
    /\ lastOp = "panViewport"
    /\ ViewportFitsWorld
    /\ viewport.width > 0
    /\ viewport.x = getWorldWidth - viewport.width + viewportMargin
    /\ viewport.y = getWorldHeight - viewport.height + viewportMargin

\* Ids of the entities the ray-casting test places inside the trail
IdsInsideLasso ==
    { numbers[k].id : k \in { j \in 1..Len(numbers) :
                                isPointInLasso(numbers[j].worldPosition, lasso.points) } }

\* C4: whenever lasso.isClosed is true, lasso.capturedNumbers is exactly the set
\* of ids of the entities whose worldPosition the even-odd test places inside
\* lasso.points.
ClosedLassoCapturesInside ==
    lasso.isClosed =>
        { lasso.capturedNumbers[k] : k \in 1..Len(lasso.capturedNumbers) }
            = IdsInsideLasso

\* Twice the signed area of the polygon polyline[from..Len], closed by the edge
\* from its last point to its first (shoelace formula)
TwiceArea(polyline, from) ==
    LET n == Len(polyline)
        succ(k) == IF k = n THEN from ELSE k + 1
        cross[k \in from..n] ==
            polyline[k].x * polyline[succ(k)].y - polyline[succ(k)].x * polyline[k].y
        sum[k \in (from - 1)..n] == IF k < from THEN 0 ELSE sum[k - 1] + cross[k]
    IN  sum[n]

\* Lasso closure parameters: closure radius and minimum loop size of the
\* configuration, and the separation a closing point must have from the point it
\* closes on
autoCloseDistance == 15
minimumLoopSize   == 40
minimumLoopPoints == 4

\* isLoopClosed of the specification: the last point lies within closureRadius of
\* an earlier point at least minimumLoopPoints back, and the loop between them
\* encloses more than the minimum loop size
isLoopClosed(polyline, closureRadius) ==
    LET n == Len(polyline)
    IN  \E i \in 1..n :
            /\ n - i >= minimumLoopPoints
            /\ (polyline[n].x - polyline[i].x) * (polyline[n].x - polyline[i].x)
                 + (polyline[n].y - polyline[i].y) * (polyline[n].y - polyline[i].y)
                    <= closureRadius * closureRadius
            /\ Abs(TwiceArea(polyline, i)) > 2 * minimumLoopSize

\* C10: while a lasso is being drawn, a trail whose last point closes a loop
\* (within the closure radius of an earlier point far enough back, enclosing
\* more than the minimum size) has lasso.isClosed true; a square trail back to
\* its start reports closed.
TrailClosureDetected ==
    (lasso.isActive /\ isLoopClosed(lasso.points, autoCloseDistance)) => lasso.isClosed

\* C2: from a touch-down until the next release no momentum tick of a decay
\* still in flight writes the cursor position or velocity.
GestureCancelsMomentum == touch = "grid" => lastOp # "momentumMove"

\* The playable rectangle shrunk by margin, in hundredths of a pixel
InPlayable(p, margin) ==
    /\ p.x >= Px(margin) /\ p.x <= screenWidth - Px(margin)
    /\ p.y >= Px(margin) /\ p.y <= screenHeight - Px(130)

\* C7: after every cursor update (exploration or joystick move, momentum tick,
\* MDRInterface move, store reset) cursor.position lies in the playable
\* rectangle shrunk by 20, or by 10 while steering in lasso mode.
CursorWithinBounds ==
    lastOp \in {"gridMove", "momentumMove", "edgeClamp", "ifaceMove", "resetGame"}
        => InPlayable(cursor.position, IF isLassoMode THEN 10 ELSE 20)

\* C8: a touch held past the hold threshold and then moved in one direction for
\* a sustained trail has put the gesture machine in lasso mode.
HoldAndTrailEntersLasso ==
    (touch = "grid" /\ gesture.since >= 350 /\ gesture.moves >= SustainedMoves)
        => isLassoMode

\* new speed squared <= old speed squared, as a sum of differences of squares
SpeedNotAbove(new, old) ==
    (new.x - old.x) * (new.x + old.x) + (new.y - old.y) * (new.y + old.y) <= 0

\* C6: after a single release the speed never grows from one momentum tick to
\* the next, the ticks that still move the cursor number fewer than
\* MaxDecayTicks, and the tick that ends the decay leaves the local velocity and
\* cursor.velocity at {0,0} with the interval cleared.
MomentumDecaysToRest ==
    /\ [][(downs = 1 /\ lastOp' \in {"momentumMove", "momentumRest"})
            => SpeedNotAbove(cursorVelocity', cursorVelocity)]_vars
    /\ []((downs = 1 /\ lastOp = "momentumMove") => ticks < MaxDecayTicks)
    /\ []((downs = 1 /\ touch = "none" /\ lastOp = "momentumRest")
            => /\ cursorVelocity = Point(0, 0)
               /\ cursor.velocity = Point(0, 0)
               /\ momentumAnimationRef = 0
               /\ intervals = << >>)

\* C6 witness: a fast flick has decayed over more than 100 ticks and come to rest
LongDecayAtRest ==
    /\ lastOp = "momentumRest"
    /\ downs = 1
    /\ ticks > 100
    /\ cursorVelocity = Point(0, 0)

\* C11: every lasso resolution (here the loop closure closeLasso) has emitted a
\* success or failure feedback event and leaves the lasso state empty and the
\* cursor mode exploration.
LassoResolutionEmitsFeedback ==
    lastOp = "closeLasso" =>
        /\ feedback.isVisible
        /\ feedback.type \in {"success", "failure"}
        /\ lasso = initialLasso
        /\ cursor.mode = "exploration"

\* GameConfig.lasso.segmentLength: the minimum spacing of trail points
segmentLength == 3

\* C14: no two consecutive points of the lasso trail are closer than the
\* minimum segment spacing.
TrailPointsSpaced ==
    \A k \in 1..(Len(lasso.points) - 1) :
        (lasso.points[k + 1].x - lasso.points[k].x)
            * (lasso.points[k + 1].x - lasso.points[k].x)
        + (lasso.points[k + 1].y - lasso.points[k].y)
            * (lasso.points[k + 1].y - lasso.points[k].y)
            >= segmentLength * segmentLength

\* The list the culling query returns in the current state
VisibleNow == getVisibleNumbers(spatialGrid, viewport, scale)

\* C12: getVisibleNumbers returns each entity at most once.
VisibleNumbersDistinct ==
    \A i, j \in 1..Len(VisibleNow.numbers) :
        i # j => VisibleNow.numbers[i].id # VisibleNow.numbers[j].id

\* C18: on a spatial index holding no entities getVisibleNumbers returns an
\* empty list and does not throw, whatever the viewport.
EmptyIndexQueryIsEmpty ==
    HeldEntities = {} => VisibleNow = [threw |-> FALSE, numbers |-> << >>]

\* C18 witness: the query ran on an empty index with a panned viewport that
\* reaches past the pre-built cells on the low and on the high side
EmptyQueryPastCells ==
    /\ lastOp = "panViewport"
    /\ HeldEntities = {}
    /\ \E i \in 1..Len(getSpatialCellsInViewport(expandedViewport(viewport))) :
           getSpatialCellsInViewport(expandedViewport(viewport))[i][1] < 0
    /\ \E i \in 1..Len(getSpatialCellsInViewport(expandedViewport(viewport))) :
           getSpatialCellsInViewport(expandedViewport(viewport))[i] \notin SpatialKeys
           /\ getSpatialCellsInViewport(expandedViewport(viewport))[i][1] > 0
    /\ VisibleNow.numbers = << >>

\* C13: a step that advances the simulation by zero elapsed time (an animation
\* frame with frameTime 0, a momentum tick with no time elapsed) leaves
\* globalTime, and so the jitter offsets, and the cursor position unchanged.
ZeroTimeTickChangesNothing ==
    [][(frameTime' = 0 /\ lastOp' \in {"animate", "momentumMove", "momentumRest"})
          => (globalTime' = globalTime /\ cursor'.position = cursor.position)]_vars

\* C15: the configuration the grid and cursor code read holds only values in
\* range: positive cell sizes, non-negative cursor sensitivity and momentum.
ConfigWithinRange ==
    /\ config.grid.cellSize > 0
    /\ config.grid.cellHeight > 0
    /\ config.cursor.sensitivity >= 0
    /\ config.cursor.momentum >= 0

\* The store state that differs from state only in the per-frame fields
\* (world.numbers, the cursor, the lasso), which hold their initial values
WithoutFrameState(state) ==
    [state EXCEPT !.world.numbers = << >>, !.cursor = initialCursor,
                  !.lasso = initialLasso]

\* C16: the persisted snapshot does not depend on per-frame state: the store
\* state and the state that differs from it only in world.numbers, the cursor
\* fields and the lasso fields yield the same snapshot.
SnapshotIgnoresFrameState ==
    partialize(storeState) = partialize(WithoutFrameState(storeState))

\* Points handed to the conversions
ProbePoints == { Point(3, 15), Point(-956, 1116), Point(1363, 0) }

\* p there and back: worldToScreen(screenToWorld(p)), and the other way round
ScreenRoundTrip(p) ==
    worldToScreenNumber(screenToWorldNumber(NumberPoint(p), viewport, scale),
                        viewport, scale)

WorldRoundTrip(q) ==
    screenToWorldNumber(worldToScreenNumber(NumberPoint(q), viewport, scale),
                        viewport, scale)

\* Both coordinates of a are within 2^k of those of the whole point p
PointWithin(a, p, k) ==
    /\ DWithin(DSub(a.x, ToDouble(p.x)), k)
    /\ DWithin(DSub(a.y, ToDouble(p.y)), k)

ImportLeavesEveryOptionDefined ==
    lastOp = "importConfig" =>
        \A section \in DOMAIN defaultConfig :
            DOMAIN config[section] = DOMAIN defaultConfig[section]

\* Keys of the spatial cells that list an entity with the given id
CellsListing(id) ==
    { key \in DOMAIN spatialGrid :
        \E k \in 1..Len(spatialGrid[key]) : spatialGrid[key][k].id = id }

\* C23: after updateNumberPosition(n, p) every stored entity is listed in
\* exactly the spatial cells its footprint overlaps at its stored position.
MovedEntityListedAtNewPosition ==
    lastOp = "updateNumberPosition" =>
        \A k \in 1..Len(numbers) :
            CellsListing(numbers[k].id)
                = getSpatialCellsForNumber(numbers[k]) \cap SpatialKeys

\* C24: at most one momentum interval is live at any time.
AtMostOneMomentumInterval == Len(intervals) <= 1

\* C25: every entity getVisibleNumbers returns has the attribute values of the
\* entity with that id in world.numbers.
VisibleNumbersAreCurrent ==
    \A i \in 1..Len(VisibleNow.numbers), k \in 1..Len(numbers) :
        numbers[k].id = VisibleNow.numbers[i].id => numbers[k] = VisibleNow.numbers[i]

\* C26: cursor.worldPosition is the screen-to-world transform of
\* cursor.position under the current viewport and scale.
CursorWorldPositionDerived ==
    cursor.worldPosition = screenToWorld(cursor.position, viewport, scale)

\* Entity objects the index holds
IndexedEntities ==
    UNION { { spatialGrid[key][k] : k \in 1..Len(spatialGrid[key]) } :
            key \in DOMAIN spatialGrid }

\* The screen position of the entity lies in the viewport grown by the margin
OnScreenWithMargin(n) ==
    isPointInViewport(worldToScreen(n.worldPosition, viewport, scale),
                      expandedViewport(viewport))

\* C27: getVisibleNumbers returns every indexed entity whose screen position
\* lies inside the viewport expanded by the margin, and no entity whose screen
\* position lies outside it, for every viewport offset and scale.
VisibleNumbersAreThoseOnScreen ==
    \A n \in IndexedEntities :
        OnScreenWithMargin(n)
            <=> \E i \in 1..Len(VisibleNow.numbers) : VisibleNow.numbers[i] = n

\* The half of C27 the filter gives: nothing off screen is returned
VisibleNumbersAreOnScreen ==
    \A i \in 1..Len(VisibleNow.numbers) : OnScreenWithMargin(VisibleNow.numbers[i])

\* C28: during momentum decay each tick moves the cursor from the position it
\* had after the previous tick by the decayed velocity, clamped to the bounds
\* (so the displacement from the release point is the running sum of the
\* per-tick velocities and the cursor never moves back toward it).
MomentumTickAdvancesFromLastPosition ==
    [][ lastOp' = "momentumMove" =>
            cursor'.position =
                ClampToBounds(Point(cursor.position.x + cursorVelocity'.x,
                                    cursor.position.y + cursorVelocity'.y), 20) ]_vars

\* C29: whenever the cursor mode changes from exploration to pinpoint, the
\* modeSwitch feedback (FeedbackSystem.triggerModeSwitch) is triggered, exactly
\* once for that transition.
PinpointEntryTriggersModeSwitch ==
    [][ (cursor.mode = "exploration" /\ cursor'.mode = "pinpoint")
            => modeSwitches' = modeSwitches + 1 ]_vars

\* triggerModeSwitch has not been called
NoModeSwitchFeedback == modeSwitches = 0

\* The finger displacement of the move event of this step alone: gestureState.dx
\* and dy are measured from the touch-down, the event before reported gesture.dir
OwnDisplacement == Point(gesture'.dir.x - gesture.dir.x, gesture'.dir.y - gesture.dir.y)

\* C30: in exploration mode each move event displaces the cursor by that
\* event's own finger displacement scaled by the sensitivity factor (so the
\* travel of a drag does not depend on how many move events report it).
ExplorationMoveAppliesOwnDisplacement ==
    [][ (lastOp' = "gridMove" /\ ~isLassoMode) =>
            LET boost == velocityBoost(gesture'.vel.x, gesture'.vel.y)
            IN  cursor'.position =
                    ClampToBounds(
                        Point(cursor.position.x + explorationDelta(OwnDisplacement.x, boost),
                              cursor.position.y + explorationDelta(OwnDisplacement.y, boost)),
                        20) ]_vars

\* C32: the trail is append-only during an active lasso and empty otherwise:
\* addLassoPoint keeps the earlier points in order and appends exactly one,
\* lasso.points is non-empty only while lasso.isActive is true, and the lasso
\* is active and not closed at the time of an append.
TrailAppendOnlyWhileActive ==
    [][ /\ lastOp' = "addLassoPoint" =>
               /\ Len(lasso'.points) = Len(lasso.points) + 1
               /\ SubSeq(lasso'.points, 1, Len(lasso.points)) = lasso.points
               /\ lasso.isActive /\ ~lasso.isClosed
        /\ lasso'.points # << >> => lasso'.isActive ]_vars

\* The append-only half of C32
AddLassoPointAppendsOne ==
    [][ lastOp' = "addLassoPoint" =>
            /\ Len(lasso'.points) = Len(lasso.points) + 1
            /\ SubSeq(lasso'.points, 1, Len(lasso.points)) = lasso.points ]_vars

\* C33 as stated: startLasso(center) yields an empty lasso: no points, active,
\* not closed, nothing captured, centred on center.
StartLassoYieldsEmptyLasso ==
    lastOp = "startLasso" =>
        /\ lasso.points = << >>
        /\ lasso.isActive /\ ~lasso.isClosed
        /\ lasso.capturedNumbers = << >>
        /\ lasso.centerPoint \in TrailPoints

\* C33: startLasso(center) yields a fresh lasso whatever the lasso before it:
\* its trail holds center alone, it is active and not closed, nothing is
\* captured and centerPoint is center; no point or captured id of an earlier
\* lasso survives.
StartLassoYieldsFreshLasso ==
    lastOp = "startLasso" =>
        /\ lasso.centerPoint \in TrailPoints
        /\ lasso.points = << lasso.centerPoint >>
        /\ lasso.isActive /\ ~lasso.isClosed
        /\ lasso.capturedNumbers = << >>

\* C33 witness: a lasso was started at a centre other than the initial one
LassoStartedAway ==
    /\ lastOp = "startLasso"
    /\ lasso.centerPoint = Point(60, 60)
    /\ lasso.points = << Point(60, 60) >>

\* C34: a banner shown by triggerSuccess or triggerFailure stays visible, with
\* that trigger's type, for the trigger's full visualDuration, even when the
\* hide timer of an earlier trigger fires in between, and is hidden afterwards.
BannerVisibleForItsDuration ==
    feedback.type \in {"success", "failure"} =>
        /\ now < feedback.timestamp + visualDuration(feedback.type) => feedback.isVisible
        /\ now > feedback.timestamp + visualDuration(feedback.type) => ~feedback.isVisible

\* The second half of C34: a banner is hidden once its duration is over
BannerHiddenAfterItsDuration ==
    (feedback.type \in {"success", "failure"}
        /\ now > feedback.timestamp + visualDuration(feedback.type)) => ~feedback.isVisible

\* C35: cursor.isMoving is true only while the cursor is moving: once the touch
\* has been released and the velocity has decayed to {0, 0}, isMoving is false.
IsMovingFalseAtRest ==
    (touch = "none" /\ lastOp = "momentumRest" /\ cursor.velocity = Point(0, 0))
        => ~cursor.isMoving

\* The step is one of the three feedback triggers
FeedbackTriggered == lastOp' \in {"triggerSuccess", "triggerFailure", "triggerModeSwitch"}

\* C36: while config.feedback.visualEnabled is false no trigger registers a
\* visual effect, and while config.feedback.audioEnabled is false no trigger
\* plays audio.
DisabledChannelsStaySilent ==
    [][ FeedbackTriggered =>
            /\ ~config.feedback.visualEnabled =>
                   feedbackSystem'.visualEffects = feedbackSystem.visualEffects
            /\ ~config.feedback.audioEnabled =>
                   feedbackSystem'.activeAudioTimeouts = feedbackSystem.activeAudioTimeouts
       ]_vars

\* C36 for triggerSuccess and triggerModeSwitch alone
DisabledChannelsSilentButFailure ==
    [][ lastOp' \in {"triggerSuccess", "triggerModeSwitch"} =>
            /\ ~config.feedback.visualEnabled =>
                   feedbackSystem'.visualEffects = feedbackSystem.visualEffects
            /\ ~config.feedback.audioEnabled =>
                   feedbackSystem'.activeAudioTimeouts = feedbackSystem.activeAudioTimeouts
       ]_vars

\* C37: the haptic driver is never invoked twice within the 100 ms cooldown,
\* and never while haptics are disabled by setHapticEnabled(false) or by
\* config.feedback.hapticEnabled = false.
HapticDriverRespectsCooldownAndSwitches ==
    [][ /\ \A i \in 1..(Len(hapticDriver') - 1) :
               hapticDriver'[i + 1].at - hapticDriver'[i].at >= hapticCooldownMs
        /\ hapticDriver' # hapticDriver =>
               /\ FeedbackTriggered
               /\ feedbackSystem.hapticEnabled
               /\ config.feedback.hapticEnabled
               /\ Len(hapticDriver') = Len(hapticDriver) + 1 ]_vars

\* C37 witness: the driver ran, a trigger inside the cooldown was swallowed,
\* and the driver ran again once the cooldown was over
HapticCooldownSwallowedTrigger ==
    /\ lastOp = "triggerModeSwitch"
    /\ Len(hapticDriver) = 2
    /\ hapticDriver[2].at = now
    /\ hapticDriver[2].at - hapticDriver[1].at >= hapticCooldownMs
    /\ feedback.timestamp > hapticDriver[1].at
    /\ feedback.timestamp - hapticDriver[1].at < hapticCooldownMs

\* C38: importConfig called with a string that is not valid JSON leaves the
\* tuning config unchanged and does not throw.
BrokenImportChangesNothing ==
    [][ /\ lastOp' # "importConfigThrew"
        /\ lastOp' = "importConfigFailed" => config' = config
        /\ \A text \in BrokenTexts :
               /\ ~JsonParse(text).ok
               /\ importConfigJson(config, text, defaultConfig) =
                      [config |-> config, failed |-> TRUE, threw |-> FALSE] ]_vars

\* C38 witness: a text that is not JSON was imported into a config that had
\* been changed before
BrokenImportOnChangedConfig ==
    /\ lastOp = "importConfigFailed"
    /\ config # defaultConfig

\* The frames in which the callback with this id ran
RunsOf(id) == { k \in 1..Len(batch.ran) : batch.ran[k].id = id }

\* The callback ran exactly once, in the frame after the one it was queued in
RanOnceNextFrame(c) ==
    /\ Cardinality(RunsOf(c.id)) = 1
    /\ \A k \in RunsOf(c.id) : batch.ran[k].frame = c.at + 1

\* The callbacks ran in the order they were queued in
RanInQueueOrder ==
    \A j, k \in 1..Len(batch.ran) : j < k => batch.ran[j].id < batch.ran[k].id

\* A callback queued before c for the same frame throws
ThrowerBefore(c) ==
    \E k \in 1..Len(batch.queued) :
        /\ batch.queued[k].at = c.at
        /\ batch.queued[k].id < c.id
        /\ batch.queued[k].kind = "throws"

NumberIdsDistinct ==
    \A i, j \in 1..Len(numbers) : i # j => numbers[i].id # numbers[j].id

\* The release speed, in tenths, is above lo and at most hi
ReleaseSpeedWithin(v, lo, hi) ==
    /\ v.x * v.x + v.y * v.y > lo * lo
    /\ v.x * v.x + v.y * v.y <= hi * hi

\* velocity * config.cursor.momentum * k, k in tenths
BoostedBy(v, k) ==
    Point(MulDiv(v.x * config.cursor.momentum, k, 100),
          MulDiv(v.y * config.cursor.momentum, k, 100))

\* C19: on release in exploration mode the initial momentum velocity is the
\* release velocity times config.cursor.momentum times k, with k = 4 for a
\* release speed above 1000, 2.5 above 500 up to 1000, 1.8 above 200 up to
\* 500, and 1 otherwise.
ReleaseBoostFollowsBands ==
    lastOp = "gridRelease" =>
        LET v == gesture.vel
        IN  /\ ~ReleaseSpeedWithin(v, 0, 10000) /\ v # Point(0, 0) =>
                    cursorVelocity = BoostedBy(v, 40)
            /\ ReleaseSpeedWithin(v, 5000, 10000) => cursorVelocity = BoostedBy(v, 25)
            /\ ReleaseSpeedWithin(v, 2000, 5000) => cursorVelocity = BoostedBy(v, 18)
            /\ (v = Point(0, 0) \/ ReleaseSpeedWithin(v, 0, 2000)) =>
                    cursorVelocity = BoostedBy(v, 10)
            /\ cursor.velocity = cursorVelocity

\* C19 witness: a release at exactly the medium threshold has been boosted
\* 1.8 times, and one at exactly the high threshold 2.5 times.
ReleasedAtThreshold ==
    /\ lastOp = "gridRelease"
    /\ gesture.vel \in { Point(3000, 4000), Point(6000, 8000) }
    /\ cursorVelocity \in { Point(8100, 10800), Point(22500, 30000) }

\* C1: after touch-down and touch-up 50 ms later, with no further input, the
\* cursor mode is exploration and never pinpoint.
TapEndsInExploration ==
    (downs = 1 /\ touch = "none" /\ heldMs <= 50) => cursor.mode = "exploration"

\* C9: a touch held for 350 ms has put the cursor in pinpoint mode while it is
\* still held, and the touch-up that ends it puts the cursor back in exploration
\* mode.
HoldReachesPinpoint ==
    /\ (touch = "iface" /\ heldMs >= 350) => cursor.mode = "pinpoint"
    /\ (touch = "none" /\ downs >= 1 /\ heldMs >= 350) => cursor.mode = "exploration"

\* C9 witness: a touch held 350 ms or more has been released
HeldTouchReleased ==
    /\ lastOp = "ifaceRelease"
    /\ heldMs >= 350
    /\ cursor.mode = "exploration"

=============================================================================
